---- MODULE Spec2Model ----
(***************************************************************************)
(* consola-rs logging core: level filter, pause queue, coalescing          *)
(* throttler and reporter dispatch (src/src/levels.rs, record.rs,          *)
(* throttling.rs, reporter.rs, clock.rs, error_chain.rs).                  *)
(***************************************************************************)
EXTENDS Integers, Sequences, FiniteSets, TLC

\* ---------------------------------------------------------------- bounds
MaxCalls == 3        \* log / log_raw calls made in one behaviour
NThreads == 3        \* threads calling into the registry at once
NErrors == 3         \* error objects in a source graph
MaxTime == 2         \* largest clock reading (time units)

\* ------------------------------------------------------- Option encoding
None == <<>>
Some(v) == <<v>>

\* ------------------------------------------------------- levels.rs
SILENT == 0 - 99
FATAL == 0
ERROR == 1
WARN == 2
LOG == 3
INFO == 4
SUCCESS == 5
DEBUG == 6
TRACE == 7
VERBOSE == 99

\* the built-in table the Lazy initialiser pushes, in order
TYPE_REGISTRY ==
  << <<"silent", SILENT>>, <<"fatal", FATAL>>, <<"error", ERROR>>,
     <<"warn", WARN>>, <<"log", LOG>>, <<"info", INFO>>,
     <<"success", SUCCESS>>, <<"fail", SUCCESS>>, <<"ready", INFO>>,
     <<"start", LOG>>, <<"box", LOG>>, <<"debug", DEBUG>>,
     <<"trace", TRACE>>, <<"verbose", VERBOSE>> >>

\* iter().find(|(n, _)| n == name).map(|(_, s)| s.level) over a registry
level_for_type(reg, name) ==
  LET hits == { i \in 1..Len(reg) : reg[i][1] = name }
  IN IF hits = {} THEN None
     ELSE Some(reg[CHOOSE i \in hits : \A j \in hits : i <= j][2])

unwrap_or(opt, dflt) == IF opt = None THEN dflt ELSE opt[1]

\* ------------------------------------------------------- record.rs
\* ArgValue::String(s)
ArgString(s) == [kind |-> "String", val |-> s]

\* Display for ArgValue: every variant writes its payload
ArgDisplay(a) == a.val

\* derive(Debug) for ArgValue: VariantName("payload")
ArgDebug(a) == a.kind \o "(\"" \o a.val \o "\")"

RECURSIVE JoinDisplay(_)
JoinDisplay(args) ==
  IF Len(args) = 1 THEN ArgDisplay(args[1])
  ELSE ArgDisplay(args[1]) \o " " \o JoinDisplay(Tail(args))

build_message(args) == IF args = <<>> THEN None ELSE Some(JoinDisplay(args))

\* LogRecord::new_with_timestamp; id is the ordinal of the call that built
\* the record (not a field of the program's record, never hashed)
new_with_timestamp(reg, type_name, tag, args, timestamp, id) ==
  [ id |-> id,
    timestamp |-> timestamp,
    level |-> unwrap_or(level_for_type(reg, type_name), LOG),
    type_name |-> type_name,
    tag |-> tag,
    args |-> args,
    message |-> build_message(args),
    repetition_count |-> 0,
    is_raw |-> FALSE ]

\* LogRecord::raw
raw(reg, type_name, tag, message, timestamp, id) ==
  [ id |-> id,
    timestamp |-> timestamp,
    level |-> unwrap_or(level_for_type(reg, type_name), LOG),
    type_name |-> type_name,
    tag |-> tag,
    args |-> <<>>,
    message |-> Some(message),
    repetition_count |-> 0,
    is_raw |-> TRUE ]

\* ------------------------------------------------------- throttling.rs
\* i16::to_le_bytes as text: a printable byte is its character, any other
\* byte is written <n>
ByteStr(b) == IF b = 99 THEN "c" ELSE "<" \o ToString(b) \o ">"

to_le_bytes(level) ==
  LET u == level % 65536
  IN ByteStr(u % 256) \o ByteStr(u \div 256)

RECURSIVE ArgsDebug(_)
ArgsDebug(args) ==
  IF args = <<>> THEN "" ELSE ArgDebug(args[1]) \o ArgsDebug(Tail(args))

\* fingerprint that leaves the arguments out of the digest
fingerprint_no_args(record) ==
  record.type_name
    \o (IF record.tag = None THEN "" ELSE record.tag[1])
    \o to_le_bytes(record.level)
    \o (IF record.message = None THEN "" ELSE record.message[1])

\* Throttler::fingerprint: the byte string fed to the hasher (the digest is
\* taken to be injective on it)
fingerprint(record) ==
  record.type_name
    \o (IF record.tag = None THEN "" ELSE record.tag[1])
    \o to_le_bytes(record.level)
    \o (IF record.message = None THEN "" ELSE record.message[1])
    \o ArgsDebug(record.args)

\* ThrottleState::new / ThrottleState::reset
ThrottleStateNew ==
  [ current_fp |-> None, first_time |-> None, count |-> 0,
    stored |-> None, emitted |-> FALSE ]

\* elapsed time measured from the start of the time axis
duration_since_absolute(now, earlier) == now

\* Instant::duration_since (saturating)
duration_since(now, earlier) == IF now >= earlier THEN now - earlier ELSE 0

\* flush_inner that emits but forgets to reset the state
flush_inner_no_reset(st, forced) ==
  [ state |-> st,
    emits |-> IF st.stored # None /\ forced /\ (st.count > 1 \/ ~st.emitted)
              THEN st.stored ELSE <<>> ]

\* flush_inner that emits the stored record whatever its count
flush_inner_always(st, forced) ==
  [ state |-> ThrottleStateNew,
    emits |-> IF st.stored # None /\ forced THEN st.stored ELSE <<>> ]

\* flush_inner that emits only a record that has never gone out
flush_inner_only_unemitted(st, forced) ==
  [ state |-> ThrottleStateNew,
    emits |-> IF st.stored # None /\ forced /\ ~st.emitted
              THEN st.stored ELSE <<>> ]

\* Throttler::flush_inner: returns the new state and the records emitted
flush_inner(st, forced) ==
  [ state |-> ThrottleStateNew,
    emits |-> IF st.stored # None /\ forced /\ (st.count > 1 \/ ~st.emitted)
              THEN st.stored ELSE <<>> ]

\* window test with >= in place of >
window_expired_ge(st, tcfg, now) ==
  /\ st.current_fp # None
  /\ st.first_time # None
  /\ duration_since(now, st.first_time[1]) >= tcfg.window
  /\ st.count > 0

\* the window test at the head of Throttler::on_record
window_expired(st, tcfg, now) ==
  /\ st.current_fp # None
  /\ st.first_time # None
  /\ duration_since(now, st.first_time[1]) > tcfg.window
  /\ st.count > 0

\* threshold test with >= in place of ==
threshold_hit_ge(cnt, tcfg) == cnt >= tcfg.min_count

\* the threshold test of Throttler::on_record
threshold_hit(cnt, tcfg) == cnt = tcfg.min_count

\* on_record that stores the record with the repetition_count it was built with
on_record_keeps_count(st, tcfg, record) ==
  LET fp == fingerprint(record)
      now == record.timestamp
      expired == window_expired(st, tcfg, now)
      r1 == IF expired THEN flush_inner(st, TRUE)
            ELSE [state |-> st, emits |-> <<>>]
      s1 == r1.state
  IN IF s1.current_fp = Some(fp)
     THEN LET cnt == s1.count + 1   \* u32; far below 2^32 within MaxCalls
              stored2 == IF s1.stored # None
                         THEN Some([s1.stored[1] EXCEPT !.repetition_count = cnt])
                         ELSE None
              hit == threshold_hit(cnt, tcfg)
          IN [ state |-> [s1 EXCEPT !.count = cnt, !.stored = stored2,
                                    !.emitted = IF hit THEN TRUE ELSE @],
               emits |-> r1.emits \o (IF hit THEN stored2 ELSE <<>>) ]
     ELSE LET r2 == IF s1.current_fp # None THEN flush_inner(s1, TRUE)
                    ELSE [state |-> s1, emits |-> <<>>]
              rec1 == record
          IN [ state |-> [ current_fp |-> Some(fp), first_time |-> Some(now),
                           count |-> 1, stored |-> Some(rec1),
                           emitted |-> TRUE ],
               emits |-> r1.emits \o r2.emits \o <<rec1>> ]

\* on_record that resets a group on a fingerprint change without flushing it
on_record_drops_old_group(st, tcfg, record) ==
  LET fp == fingerprint(record)
      now == record.timestamp
      expired == window_expired(st, tcfg, now)
      r1 == IF expired THEN flush_inner(st, TRUE)
            ELSE [state |-> st, emits |-> <<>>]
      s1 == r1.state
  IN IF s1.current_fp = Some(fp)
     THEN LET cnt == s1.count + 1
              stored2 == IF s1.stored # None
                         THEN Some([s1.stored[1] EXCEPT !.repetition_count = cnt])
                         ELSE None
              hit == threshold_hit(cnt, tcfg)
          IN [ state |-> [s1 EXCEPT !.count = cnt, !.stored = stored2,
                                    !.emitted = IF hit THEN TRUE ELSE @],
               emits |-> r1.emits \o (IF hit THEN stored2 ELSE <<>>) ]
     ELSE LET rec1 == [record EXCEPT !.repetition_count = 1]
          IN [ state |-> [ current_fp |-> Some(fp), first_time |-> Some(now),
                           count |-> 1, stored |-> Some(rec1),
                           emitted |-> TRUE ],
               emits |-> r1.emits \o <<rec1>> ]

\* Throttler::on_record
on_record(st, tcfg, record) ==
  LET fp == fingerprint(record)
      now == record.timestamp
      expired == window_expired(st, tcfg, now)
      r1 == IF expired THEN flush_inner(st, TRUE)
            ELSE [state |-> st, emits |-> <<>>]
      s1 == r1.state
  IN IF s1.current_fp = Some(fp)
     THEN LET cnt == s1.count + 1   \* u32; far below 2^32 within MaxCalls
              stored2 == IF s1.stored # None
                         THEN Some([s1.stored[1] EXCEPT !.repetition_count = cnt])
                         ELSE None
              hit == threshold_hit(cnt, tcfg)
          IN [ state |-> [s1 EXCEPT !.count = cnt, !.stored = stored2,
                                    !.emitted = IF hit THEN TRUE ELSE @],
               emits |-> r1.emits \o (IF hit THEN stored2 ELSE <<>>) ]
     ELSE LET r2 == IF s1.current_fp # None THEN flush_inner(s1, TRUE)
                    ELSE [state |-> s1, emits |-> <<>>]
              rec1 == [record EXCEPT !.repetition_count = 1]
          IN [ state |-> [ current_fp |-> Some(fp), first_time |-> Some(now),
                           count |-> 1, stored |-> Some(rec1),
                           emitted |-> TRUE ],
               emits |-> r1.emits \o r2.emits \o <<rec1>> ]

\* Throttler::flush
throttler_flush(st) == flush_inner(st, TRUE)

\* ------------------------------------------------------- reporter.rs
VARIABLES
  registry,   \* TYPE_REGISTRY contents
  cfg,        \* Logger.cfg: level, throttle, queue_capacity
  state,      \* Logger.throttler.state
  paused,     \* Logger.paused
  queue,      \* Logger.queue
  clock,      \* reading of cfg.clock
  alive,      \* FALSE once the logger has been dropped
  out,        \* records handed to the reporter by the last operation, in order
  fed,        \* ids of the records handed to process_record by the last operation
  op,         \* the last operation and what it did with its record
  ncalls,     \* log / log_raw calls made so far
  nemitted,   \* records handed to the reporter so far
  evicted,     \* records popped by enqueue since the last pause()
  mock_fn,    \* Logger.mock_fn is Some
  sink_ok,    \* the reporter's writes succeed
  events,     \* what the last operation's emit calls did, in order
  env,        \* the CONSOLA_LEVEL environment variable
  builder,    \* the LoggerBuilder under construction
  call,       \* the library function being applied outside any logger
  lock,       \* the RwLock around TYPE_REGISTRY
  threads,    \* the threads calling register_type / level_for_type
  twin        \* a second, independent logger given the same operations

vars == << registry, cfg, state, paused, queue, clock, alive,
           out, fed, op, ncalls, nemitted, evicted,
           mock_fn, sink_ok, events, env, builder,
           call, lock, threads, twin >>

\* what a single logger and its builder never touch
aux == << call, lock, threads, twin >>

\* no function call in progress, the registry lock free, no other thread,
\* no second logger
NoCall == [name |-> "none"]
LockFree == [writer |-> None, readers |-> {}, poisoned |-> FALSE]
NoThreads == << >>
AuxIdle ==
  /\ call = NoCall
  /\ lock = LockFree
  /\ threads = NoThreads
  /\ twin = None

\* inputs of the log calls
TypeNames == {"silent", "info", "debug"}
RawTypeNames == {"info"}
Tags == {None}
Msgs == {"a"}

\* configurations the logger is built with
Levels == {SILENT, INFO, VERBOSE}
Windows == {0, 1}
MinCounts == {0, 1, 2, 3}
Capacities == {None, Some(0), Some(1), Some(2)}

\* name: the operation; rec: the record a log call built; passed: it passed
\* the level filter (for resume: the logger was paused); ndropped: queued
\* records the drain filtered out
OpInfo(name, rec, passed, ndropped) ==
  [name |-> name, rec |-> rec, passed |-> passed, ndropped |-> ndropped]

\* level filter with the comparison inverted
passes_level_inverted(c, record) == record.level >= c.level

\* level filter with < in place of <=
passes_level_strict(c, record) == record.level < c.level

\* Logger::passes_level
passes_level(c, record) == record.level <= c.level

\* enqueue that drops the newest queued record at capacity
enqueue_drop_newest(c, q, record) ==
  LET q1 == IF c.queue_capacity # None /\ Len(q) >= c.queue_capacity[1] /\ q # <<>>
            THEN SubSeq(q, 1, Len(q) - 1) ELSE q
  IN Append(q1, record)

\* Logger::enqueue
enqueue(c, q, record) ==
  LET q1 == IF c.queue_capacity # None /\ Len(q) >= c.queue_capacity[1] /\ q # <<>>
            THEN Tail(q) ELSE q
  IN Append(q1, record)

\* Logger::process_record: the throttler's emissions are collected and then
\* emitted in order
process_record(st, c, record) == on_record(st, c.throttle, record)

\* drain that pops from the back of the queue
RECURSIVE drain_lifo(_, _, _, _)
drain_lifo(q, st, c, acc) ==
  IF q = <<>> THEN [state |-> st, emits |-> acc.emits, fed |-> acc.fed,
                    ndropped |-> acc.ndropped]
  ELSE LET rec == q[Len(q)]
           rest == SubSeq(q, 1, Len(q) - 1)
       IN IF ~passes_level(c, rec)
          THEN drain_lifo(rest, st, c, [acc EXCEPT !.ndropped = @ + 1])
          ELSE LET r == process_record(st, c, rec)
               IN drain_lifo(rest, r.state, c,
                             [acc EXCEPT !.emits = @ \o r.emits,
                                         !.fed = Append(@, rec.id)])

\* drain that does not re-apply the level filter
RECURSIVE drain_no_filter(_, _, _, _)
drain_no_filter(q, st, c, acc) ==
  IF q = <<>> THEN [state |-> st, emits |-> acc.emits, fed |-> acc.fed,
                    ndropped |-> acc.ndropped]
  ELSE LET rec == Head(q)
           r == process_record(st, c, rec)
       IN drain_no_filter(Tail(q), r.state, c,
                          [acc EXCEPT !.emits = @ \o r.emits,
                                      !.fed = Append(@, rec.id)])

\* the while-let loop of Logger::resume
RECURSIVE drain(_, _, _, _)
drain(q, st, c, acc) ==
  IF q = <<>> THEN [state |-> st, emits |-> acc.emits, fed |-> acc.fed,
                    ndropped |-> acc.ndropped]
  ELSE LET rec == Head(q)
       IN IF ~passes_level(c, rec)
          THEN drain(Tail(q), st, c, [acc EXCEPT !.ndropped = @ + 1])
          ELSE LET r == process_record(st, c, rec)
               IN drain(Tail(q), r.state, c,
                        [acc EXCEPT !.emits = @ \o r.emits,
                                    !.fed = Append(@, rec.id)])

\* sink chosen with < in place of <=
Sink_strict(record) == IF record.level < ERROR THEN "stderr" ELSE "stdout"

\* sink of a record's line
Sink(record) == IF record.level <= ERROR THEN "stderr" ELSE "stdout"

\* emit that calls the mock after the reporter
emit_mock_last(mock, ok, record) ==
  << [to |-> Sink(record), rec |-> record,
      res |-> IF ok THEN "Ok" ELSE "Err"] >>
  \o (IF mock THEN << [to |-> "mock", rec |-> record, res |-> "called"] >>
              ELSE <<>>)

\* Logger::emit: the mock, when installed, and then the reporter
emit(mock, ok, record) ==
  (IF mock THEN << [to |-> "mock", rec |-> record, res |-> "called"] >>
           ELSE <<>>)
  \o << [to |-> Sink(record), rec |-> record,
         res |-> IF ok THEN "Ok" ELSE "Err"] >>

\* emit loop that returns at the reporter's first error
RECURSIVE emit_all_abort(_, _, _)
emit_all_abort(mock, ok, recs) ==
  IF recs = <<>> THEN <<>>
  ELSE emit(mock, ok, Head(recs))
       \o (IF ok THEN emit_all_abort(mock, ok, Tail(recs)) ELSE <<>>)

\* the emit loops of process_record and flush; the result of the reporter
\* is discarded
RECURSIVE emit_all(_, _, _)
emit_all(mock, ok, recs) ==
  IF recs = <<>> THEN <<>>
  ELSE emit(mock, ok, Head(recs)) \o emit_all(mock, ok, Tail(recs))

\* MockClock::now of a clock whose base is `base` when the offset from the
\* base is the record's timestamp (the first logger's base is 0)
at_base(rec, base) == [rec EXCEPT !.timestamp = base + @]

\* a second logger, built at another moment
TwinNew(base) ==
  [base |-> base, state |-> ThrottleStateNew, paused |-> FALSE,
   queue |-> <<>>, out |-> <<>>]

\* Logger::log and Logger::log_raw on the second logger
twin_log(tw, c, rec) ==
  IF ~passes_level(c, rec) THEN [tw EXCEPT !.out = <<>>]
  ELSE IF tw.paused
  THEN [tw EXCEPT !.queue = enqueue(c, tw.queue, rec), !.out = <<>>]
  ELSE LET r == process_record(tw.state, c, rec)
       IN [tw EXCEPT !.state = r.state, !.out = r.emits]

\* Logger::flush on the second logger
twin_flush(tw) ==
  LET r == throttler_flush(tw.state)
  IN [tw EXCEPT !.state = r.state, !.out = r.emits]

\* Logger::resume on the second logger
twin_resume(tw, c) ==
  IF ~tw.paused THEN [tw EXCEPT !.out = <<>>]
  ELSE LET f == throttler_flush(tw.state)
           d == drain(tw.queue, f.state, c,
                      [emits |-> f.emits, fed |-> <<>>, ndropped |-> 0])
       IN [tw EXCEPT !.paused = FALSE, !.state = d.state, !.queue = <<>>,
                     !.out = d.emits]

\* the operation the first logger has just been given, on the second logger
twin_step(tw, c, o) ==
  IF o.name \in {"log", "log_raw"} THEN twin_log(tw, c, at_base(o.rec[1], tw.base))
  ELSE IF o.name \in {"flush", "drop"} THEN twin_flush(tw)
  ELSE IF o.name = "pause"
  THEN (IF tw.paused THEN [tw EXCEPT !.out = <<>>]
        ELSE [twin_flush(tw) EXCEPT !.paused = TRUE])
  ELSE IF o.name = "resume" THEN twin_resume(tw, c)
  ELSE [tw EXCEPT !.out = <<>>]

\* the emit calls of an operation that hands out' to the reporter; the
\* operations above the builder leave mock, sink, environment and builder
\* alone; a second logger, when there is one, is given the same operation
Dispatch ==
  /\ events' = emit_all(mock_fn, sink_ok, out')
  /\ UNCHANGED << mock_fn, sink_ok, env, builder >>
  /\ UNCHANGED << call, lock, threads >>
  /\ twin' = IF twin = None THEN None ELSE Some(twin_step(twin[1], cfg, op'))

\* RecordDefaults::default
RecordDefaultsDefault == [tag |-> None, additional |-> None, meta |-> None]

\* no LoggerBuilder: the logger is made by Logger::new
NoBuilder == [level |-> VERBOSE, explicit |-> None, env_applied |-> FALSE,
              built |-> TRUE, defaults |-> RecordDefaultsDefault]

\* Logger::new(reporter).with_config(cfg) for cfg drawn from the given sets
InitLogger(levels, windows, mincounts, caps) ==
  /\ registry = TYPE_REGISTRY
  /\ \E l \in levels, w \in windows, m \in mincounts, qc \in caps :
       cfg = [ level |-> l, throttle |-> [window |-> w, min_count |-> m],
               queue_capacity |-> qc ]
  /\ state = ThrottleStateNew
  /\ paused = FALSE
  /\ queue = <<>>
  /\ clock = 0
  /\ alive = TRUE
  /\ out = <<>>
  /\ fed = <<>>
  /\ op = OpInfo("new", None, FALSE, 0)
  /\ ncalls = 0
  /\ nemitted = 0
  /\ evicted = 0
  /\ mock_fn = FALSE
  /\ sink_ok = TRUE
  /\ events = <<>>
  /\ env = None
  /\ builder = NoBuilder

\* a logger on its own
InitWith(levels, windows, mincounts, caps) ==
  /\ InitLogger(levels, windows, mincounts, caps)
  /\ AuxIdle

\* log that hands the record to the throttler whether paused or not
Submit_ignores_pause(name, record) ==
  /\ ncalls' = ncalls + 1
  /\ IF ~passes_level(cfg, record)
     THEN /\ op' = OpInfo(name, Some(record), FALSE, 0)
          /\ out' = <<>>
          /\ fed' = <<>>
          /\ UNCHANGED << state, queue, evicted, nemitted >>
     ELSE LET r == process_record(state, cfg, record)
          IN /\ op' = OpInfo(name, Some(record), TRUE, 0)
             /\ state' = r.state
             /\ out' = r.emits
             /\ fed' = <<record.id>>
             /\ nemitted' = nemitted + Len(r.emits)
             /\ UNCHANGED << queue, evicted >>
  /\ UNCHANGED << registry, cfg, paused, clock, alive >>
  /\ Dispatch

\* log that tests the paused flag before the level filter
Submit_queues_unfiltered(name, record) ==
  /\ ncalls' = ncalls + 1
  /\ IF paused
     THEN /\ op' = OpInfo(name, Some(record), passes_level(cfg, record), 0)
          /\ queue' = enqueue(cfg, queue, record)
          /\ evicted' = evicted + (Len(queue) + 1 - Len(queue'))
          /\ out' = <<>>
          /\ fed' = <<>>
          /\ UNCHANGED << state, nemitted >>
     ELSE IF ~passes_level(cfg, record)
     THEN /\ op' = OpInfo(name, Some(record), FALSE, 0)
          /\ out' = <<>>
          /\ fed' = <<>>
          /\ UNCHANGED << state, queue, evicted, nemitted >>
     ELSE LET r == process_record(state, cfg, record)
          IN /\ op' = OpInfo(name, Some(record), TRUE, 0)
             /\ state' = r.state
             /\ out' = r.emits
             /\ fed' = <<record.id>>
             /\ nemitted' = nemitted + Len(r.emits)
             /\ UNCHANGED << queue, evicted >>
  /\ UNCHANGED << registry, cfg, paused, clock, alive >>
  /\ Dispatch

\* the part of Logger::log and Logger::log_raw after the record is built
Submit(name, record) ==
  /\ ncalls' = ncalls + 1
  /\ IF ~passes_level(cfg, record)
     THEN /\ op' = OpInfo(name, Some(record), FALSE, 0)
          /\ out' = <<>>
          /\ fed' = <<>>
          /\ UNCHANGED << state, queue, evicted, nemitted >>
     ELSE IF paused
     THEN /\ op' = OpInfo(name, Some(record), TRUE, 0)
          /\ queue' = enqueue(cfg, queue, record)
          /\ evicted' = evicted + (Len(queue) + 1 - Len(queue'))
          /\ out' = <<>>
          /\ fed' = <<>>
          /\ UNCHANGED << state, nemitted >>
     ELSE LET r == process_record(state, cfg, record)
          IN /\ op' = OpInfo(name, Some(record), TRUE, 0)
             /\ state' = r.state
             /\ out' = r.emits
             /\ fed' = <<record.id>>
             /\ nemitted' = nemitted + Len(r.emits)
             /\ UNCHANGED << queue, evicted >>
  /\ UNCHANGED << registry, cfg, paused, clock, alive >>
  /\ Dispatch

\* Logger::log with one string argument
Log ==
  /\ alive
  /\ ncalls < MaxCalls
  /\ \E t \in TypeNames, tag \in Tags, m \in Msgs :
       Submit("log", new_with_timestamp(registry, t, tag, <<ArgString(m)>>,
                                        clock, ncalls + 1))

\* Logger::log_raw
LogRaw ==
  /\ alive
  /\ ncalls < MaxCalls
  /\ \E t \in RawTypeNames, tag \in Tags, m \in Msgs :
       Submit("log_raw", raw(registry, t, tag, m, clock, ncalls + 1))

\* the flush body shared by flush, pause, resume and drop
FlushStep(name) ==
  LET r == throttler_flush(state)
  IN /\ state' = r.state
     /\ out' = r.emits
     /\ fed' = <<>>
     /\ nemitted' = nemitted + Len(r.emits)
     /\ op' = OpInfo(name, None, FALSE, 0)

\* flush that also drains the pause queue
Flush_drains ==
  /\ alive
  /\ LET f == throttler_flush(state)
          d == drain(queue, f.state, cfg,
                     [emits |-> f.emits, fed |-> <<>>, ndropped |-> 0])
     IN /\ state' = d.state
        /\ queue' = <<>>
        /\ out' = d.emits
        /\ fed' = d.fed
        /\ nemitted' = nemitted + Len(d.emits)
        /\ op' = OpInfo("flush", None, FALSE, 0)
  /\ UNCHANGED << registry, cfg, paused, clock, alive, ncalls, evicted >>
  /\ Dispatch

\* Logger::flush
Flush ==
  /\ alive
  /\ FlushStep("flush")
  /\ UNCHANGED << registry, cfg, paused, queue, clock, alive, ncalls, evicted >>
  /\ Dispatch

\* pause that sets the flag without flushing the throttler
Pause_no_flush ==
  /\ alive
  /\ paused' = TRUE
  /\ evicted' = IF paused THEN evicted ELSE 0
  /\ op' = OpInfo("pause", None, FALSE, 0)
  /\ out' = <<>>
  /\ fed' = <<>>
  /\ UNCHANGED << registry, cfg, state, queue, clock, alive, ncalls, nemitted >>
  /\ Dispatch

\* Logger::pause
Pause ==
  /\ alive
  /\ IF ~paused
     THEN /\ FlushStep("pause")
          /\ paused' = TRUE
          /\ evicted' = 0
     ELSE /\ op' = OpInfo("pause", None, FALSE, 0)
          /\ out' = <<>>
          /\ fed' = <<>>
          /\ UNCHANGED << state, paused, nemitted, evicted >>
  /\ UNCHANGED << registry, cfg, queue, clock, alive, ncalls >>
  /\ Dispatch

\* resume that can only be called on a paused logger
Resume_requires_paused ==
  /\ alive
  /\ paused
  /\ LET f == throttler_flush(state)
          d == drain(queue, f.state, cfg,
                     [emits |-> f.emits, fed |-> <<>>, ndropped |-> 0])
     IN /\ paused' = FALSE
        /\ state' = d.state
        /\ queue' = <<>>
        /\ out' = d.emits
        /\ fed' = d.fed
        /\ nemitted' = nemitted + Len(d.emits)
        /\ op' = OpInfo("resume", None, TRUE, d.ndropped)
  /\ UNCHANGED << registry, cfg, clock, alive, ncalls, evicted >>
  /\ Dispatch

\* resume that leaves in the queue the records the filter rejects
Resume_keeps_filtered ==
  /\ alive
  /\ IF ~paused
     THEN /\ op' = OpInfo("resume", None, FALSE, 0)
          /\ out' = <<>>
          /\ fed' = <<>>
          /\ UNCHANGED << state, paused, queue, nemitted >>
     ELSE LET f == throttler_flush(state)
              d == drain(queue, f.state, cfg,
                         [emits |-> f.emits, fed |-> <<>>, ndropped |-> 0])
          IN /\ paused' = FALSE
             /\ state' = d.state
             /\ queue' = SelectSeq(queue, LAMBDA r : ~passes_level(cfg, r))
             /\ out' = d.emits
             /\ fed' = d.fed
             /\ nemitted' = nemitted + Len(d.emits)
             /\ op' = OpInfo("resume", None, TRUE, d.ndropped)
  /\ UNCHANGED << registry, cfg, clock, alive, ncalls, evicted >>
  /\ Dispatch

\* Logger::resume
Resume ==
  /\ alive
  /\ IF ~paused
     THEN /\ op' = OpInfo("resume", None, FALSE, 0)
          /\ out' = <<>>
          /\ fed' = <<>>
          /\ UNCHANGED << state, paused, queue, nemitted >>
     ELSE LET f == throttler_flush(state)
              d == drain(queue, f.state, cfg,
                         [emits |-> f.emits, fed |-> <<>>, ndropped |-> 0])
          IN /\ paused' = FALSE
             /\ state' = d.state
             /\ queue' = <<>>
             /\ out' = d.emits
             /\ fed' = d.fed
             /\ nemitted' = nemitted + Len(d.emits)
             /\ op' = OpInfo("resume", None, TRUE, d.ndropped)
  /\ UNCHANGED << registry, cfg, clock, alive, ncalls, evicted >>
  /\ Dispatch

\* Logger::set_level
SetLevel ==
  /\ alive
  /\ \E l \in Levels \ {cfg.level} :
       cfg' = [cfg EXCEPT !.level = l]
  /\ op' = OpInfo("set_level", None, FALSE, 0)
  /\ out' = <<>>
  /\ fed' = <<>>
  /\ UNCHANGED << registry, state, paused, queue, clock, alive, ncalls,
                  nemitted, evicted >>
  /\ Dispatch

\* Drop for Logger
Drop ==
  /\ alive
  /\ FlushStep("drop")
  /\ alive' = FALSE
  /\ UNCHANGED << registry, cfg, paused, queue, clock, ncalls, evicted >>
  /\ Dispatch

\* MockClock::advance / the passage of time under SystemClock
Tick ==
  /\ alive
  /\ clock < MaxTime
  /\ clock' = clock + 1
  /\ op' = OpInfo("tick", None, FALSE, 0)
  /\ out' = <<>>
  /\ fed' = <<>>
  /\ UNCHANGED << registry, cfg, state, paused, queue, alive, ncalls,
                  nemitted, evicted >>
  /\ Dispatch

\* Logger::error
Error ==
  /\ alive
  /\ ncalls < MaxCalls
  /\ \E m \in Msgs :
       Submit("log", new_with_timestamp(registry, "error", None,
                                        <<ArgString(m)>>, clock, ncalls + 1))

\* Logger::log with no argument or with one empty string
LogEdge ==
  /\ alive
  /\ ncalls < MaxCalls
  /\ \E args \in {<<>>, <<ArgString("")>>} :
       Submit("log", new_with_timestamp(registry, "info", None, args,
                                        clock, ncalls + 1))

\* Logger::log_raw with an empty message
LogRawEmpty ==
  /\ alive
  /\ ncalls < MaxCalls
  /\ Submit("log_raw", raw(registry, "info", None, "", clock, ncalls + 1))

\* Logger::log with a type that is not registered, with and without a tag
LogTagged ==
  /\ alive
  /\ ncalls < MaxCalls
  /\ \E t \in {"a", "ab"}, tag \in {None, Some(""), Some("b")} :
       Submit("log", new_with_timestamp(registry, t, tag, <<ArgString("a")>>,
                                        clock, ncalls + 1))

\* an operation that emits nothing and touches neither throttler nor queue
Quiet(name) ==
  /\ op' = OpInfo(name, None, FALSE, 0)
  /\ out' = <<>>
  /\ fed' = <<>>
  /\ events' = <<>>
  /\ UNCHANGED << registry, cfg, state, paused, queue, clock, alive, ncalls,
                  nemitted, evicted, env, builder >>
  /\ UNCHANGED aux

\* Logger::set_mock
SetMock ==
  /\ alive
  /\ mock_fn' = TRUE
  /\ Quiet("set_mock")
  /\ UNCHANGED sink_ok

\* Logger::clear_mock
ClearMock ==
  /\ alive
  /\ mock_fn' = FALSE
  /\ Quiet("clear_mock")
  /\ UNCHANGED sink_ok

\* the reporter's writer starts or stops returning io::Error
SinkChange ==
  /\ alive
  /\ sink_ok' = ~sink_ok
  /\ Quiet("sink")
  /\ UNCHANGED mock_fn

\* --------------------------------------------- reporter.rs: LoggerBuilder
I16_MIN == 0 - 32768
I16_MAX == 32767

DecimalDigits == <<"0", "1", "2", "3", "4", "5", "6", "7", "8", "9">>

\* value of a decimal digit
DigitValue(ch) == (CHOOSE i \in 1..10 : DecimalDigits[i] = ch) - 1

IsDigit(ch) == \E i \in 1..10 : DecimalDigits[i] = ch

\* value of a non-empty digit string, None once it leaves the i16 range
RECURSIVE digits_value(_, _, _)
digits_value(chars, acc, neg) ==
  IF chars = <<>> THEN Some(acc)
  ELSE LET d == DigitValue(Head(chars))
           v == IF neg THEN acc * 10 - d ELSE acc * 10 + d
       IN IF v < I16_MIN \/ v > I16_MAX THEN None
          ELSE digits_value(Tail(chars), v, neg)

\* str::parse::<i16> on a string given as its characters: an optional sign
\* and at least one digit, nothing else, within the i16 range
parse_i16(chars) ==
  LET signed == chars # <<>> /\ Head(chars) \in {"+", "-"}
      body == IF signed THEN Tail(chars) ELSE chars
  IN IF body = <<>> \/ \E i \in 1..Len(body) : ~IsDigit(body[i]) THEN None
     ELSE digits_value(body, 0, signed /\ Head(chars) = "-")

\* the string made of the characters
RECURSIVE StrOf(_)
StrOf(chars) == IF chars = <<>> THEN "" ELSE Head(chars) \o StrOf(Tail(chars))

\* values of CONSOLA_LEVEL: unset, type names, numbers, and strings that
\* are neither
EnvValues ==
  { None,
    Some(<<"d", "e", "b", "u", "g">>),
    Some(<<"e", "r", "r", "o", "r">>),
    Some(<<"2">>),
    Some(<<"-", "9", "9">>),
    Some(<<"b", "o", "g", "u", "s">>),
    Some(<<>>),
    Some(<<"9", "9", "9", "9", "9">>) }

\* levels passed to with_level
BuilderLevels == {SILENT, WARN, INFO}

\* ThrottleConfig::default (window in milliseconds)
ThrottleConfigDefault == [window |-> 500, min_count |-> 2]

\* LoggerConfig::default
LoggerConfigDefault ==
  [level |-> VERBOSE, throttle |-> ThrottleConfigDefault, queue_capacity |-> None]

\* LoggerBuilder::new; explicit (the last level passed to with_level) and
\* env_applied (from_env was called) are not fields of the program's builder
LoggerBuilderNew ==
  [level |-> LoggerConfigDefault.level, explicit |-> None,
   env_applied |-> FALSE, built |-> FALSE, defaults |-> RecordDefaultsDefault]

\* defaults passed to with_defaults
DefaultsValues ==
  { [tag |-> Some("dt"), additional |-> None, meta |-> None],
    [tag |-> None, additional |-> Some(<<ArgString("da")>>), meta |-> None] }

\* LoggerBuilder::with_defaults
with_defaults(b, defaults) == [b EXCEPT !.defaults = defaults]

\* LoggerBuilder::with_level
with_level(b, level) == [b EXCEPT !.level = level, !.explicit = Some(level)]

\* LoggerBuilder::from_env
from_env(b, e, reg) ==
  LET b1 == [b EXCEPT !.env_applied = TRUE]
  IN IF e = None THEN b1
     ELSE LET level_num == parse_i16(e[1])
          IN IF level_num # None THEN [b1 EXCEPT !.level = level_num[1]]
             ELSE LET level == level_for_type(reg, StrOf(e[1]))
                  IN IF level # None THEN [b1 EXCEPT !.level = level[1]]
                     ELSE b1

\* a builder call: nothing of the logger exists yet
BuilderCall(name) ==
  /\ ~builder.built
  /\ op' = OpInfo(name, None, FALSE, 0)
  /\ UNCHANGED << registry, cfg, state, paused, queue, clock, alive, out, fed,
                  ncalls, nemitted, evicted, mock_fn, sink_ok, events, env >>
  /\ UNCHANGED aux

\* LoggerBuilder::with_level
WithLevel ==
  /\ \E l \in BuilderLevels : builder' = with_level(builder, l)
  /\ BuilderCall("with_level")

\* LoggerBuilder::from_env
FromEnv ==
  /\ builder' = from_env(builder, env, registry)
  /\ BuilderCall("from_env")

\* LoggerBuilder::with_defaults
WithDefaults ==
  /\ \E d \in DefaultsValues : builder' = with_defaults(builder, d)
  /\ BuilderCall("with_defaults")

\* LoggerBuilder::build: the logger gets the builder's config; the builder's
\* defaults are not handed over
Build ==
  /\ ~builder.built
  /\ builder' = [builder EXCEPT !.built = TRUE]
  /\ cfg' = [LoggerConfigDefault EXCEPT !.level = builder.level]
  /\ alive' = TRUE
  /\ op' = OpInfo("build", None, FALSE, 0)
  /\ UNCHANGED << registry, state, paused, queue, clock, out, fed, ncalls,
                  nemitted, evicted, mock_fn, sink_ok, events, env >>
  /\ UNCHANGED aux

\* LoggerBuilder::new() under each value of CONSOLA_LEVEL
InitBuilder ==
  /\ registry = TYPE_REGISTRY
  /\ cfg = LoggerConfigDefault
  /\ state = ThrottleStateNew
  /\ paused = FALSE
  /\ queue = <<>>
  /\ clock = 0
  /\ alive = FALSE
  /\ out = <<>>
  /\ fed = <<>>
  /\ op = OpInfo("builder_new", None, FALSE, 0)
  /\ ncalls = 0
  /\ nemitted = 0
  /\ evicted = 0
  /\ mock_fn = FALSE
  /\ sink_ok = TRUE
  /\ events = <<>>
  /\ env \in EnvValues
  /\ builder = LoggerBuilderNew
  /\ AuxIdle

NextBuilder == WithLevel \/ FromEnv \/ Build

SpecBuilder == InitBuilder /\ [][NextBuilder]_vars

\* ------------------------------------------ functions called on their own
\* no logger and no builder exist
InitNoLogger ==
  /\ registry = TYPE_REGISTRY
  /\ cfg = LoggerConfigDefault
  /\ state = ThrottleStateNew
  /\ paused = FALSE
  /\ queue = <<>>
  /\ clock = 0
  /\ alive = FALSE
  /\ out = <<>>
  /\ fed = <<>>
  /\ op = OpInfo("none", None, FALSE, 0)
  /\ ncalls = 0
  /\ nemitted = 0
  /\ evicted = 0
  /\ mock_fn = FALSE
  /\ sink_ok = TRUE
  /\ events = <<>>
  /\ env = None
  /\ builder = NoBuilder

\* the variables of logger, builder and environment
logger_vars ==
  << cfg, state, paused, queue, clock, alive, out, fed, op, ncalls, nemitted,
     evicted, mock_fn, sink_ok, events, env, builder >>

\* ------------------------------------------------ record.rs: merge_defaults
\* the keys of a meta list
MetaKeys(meta) == { meta[i][1] : i \in 1..Len(meta) }

\* HashMap::insert of every pair in order: the last value of a key stays
RECURSIVE insert_all(_, _)
insert_all(map, pairs) ==
  IF pairs = <<>> THEN map
  ELSE LET k == Head(pairs)[1]
           v == Head(pairs)[2]
       IN insert_all([x \in DOMAIN map \cup {k} |-> IF x = k THEN v ELSE map[x]],
                     Tail(pairs))

\* HashMap::into_iter().collect(): the pairs of the map in an order the hasher
\* decides
MapOrders(map) ==
  LET ks == DOMAIN map
      n == Cardinality(ks)
  IN { [i \in 1..n |-> <<f[i], map[f[i]]>>] :
         f \in { g \in [1..n -> ks] : \A i, j \in 1..n : i # j => g[i] # g[j] } }

\* LogRecord::merge_defaults on the fields it reads and writes; the set of
\* records it can return
merge_defaults(rec, defaults) ==
  LET tag == IF rec.tag = None /\ defaults.tag # None THEN defaults.tag
             ELSE rec.tag
      additional ==
        IF defaults.additional = None THEN rec.additional
        ELSE IF rec.additional = None THEN defaults.additional
        ELSE Some(defaults.additional[1] \o rec.additional[1])
      metas ==
        IF defaults.meta = None THEN {rec.meta}
        ELSE IF rec.meta = None THEN {defaults.meta}
        ELSE LET meta_map == insert_all(insert_all(<< >>, defaults.meta[1]),
                                        rec.meta[1])
             IN { Some(m) : m \in MapOrders(meta_map) }
  IN { [tag |-> tag, additional |-> additional, meta |-> m] : m \in metas }

\* records and defaults merge_defaults is applied to
MergeTags == {None, Some("t")}
MergeAdditionals == {None, Some(<<>>), Some(<<ArgString("x")>>)}
RecordMetas ==
  { None, Some(<<>>),
    Some(<< <<"k1", ArgString("r1")>> >>),
    Some(<< <<"k1", ArgString("r1")>>, <<"k2", ArgString("r2")>> >>),
    Some(<< <<"k1", ArgString("r1")>>, <<"k1", ArgString("r2")>> >>) }
DefaultMetas ==
  { None,
    Some(<< <<"k1", ArgString("d1")>> >>),
    Some(<< <<"k3", ArgString("d3")>>, <<"k1", ArgString("d1")>> >>),
    Some(<< <<"k3", ArgString("d1")>>, <<"k3", ArgString("d3")>> >>) }

InitMerge ==
  /\ InitNoLogger
  /\ lock = LockFree
  /\ threads = NoThreads
  /\ twin = None
  /\ \E t \in MergeTags, a \in MergeAdditionals, m \in RecordMetas,
        dt \in {None, Some("dt")}, da \in {None, Some(<<ArgString("d")>>)},
        dm \in DefaultMetas :
       call = [name |-> "merge_defaults",
               rec |-> [tag |-> t, additional |-> a, meta |-> m],
               defaults |-> [tag |-> dt, additional |-> da, meta |-> dm],
               result |-> None]

\* record.merge_defaults(&defaults)
MergeDefaults ==
  /\ call.name = "merge_defaults"
  /\ call.result = None
  /\ \E r \in merge_defaults(call.rec, call.defaults) :
       call' = [call EXCEPT !.result = Some(r)]
  /\ UNCHANGED << registry, lock, threads, twin >>
  /\ UNCHANGED logger_vars

NextMerge == MergeDefaults

SpecMerge == InitMerge /\ [][NextMerge]_vars

\* --------------------------------- levels.rs: the registry under threads
\* the calls a thread can make: kind, type name, level (register_type only)
RegistryCalls ==
  { <<"register_type", "info", TRACE>>,
    <<"register_type", "custom", WARN>>,
    <<"register_type", "custom", SUCCESS>>,
    <<"level_for_type", "info", 0>>,
    <<"level_for_type", "custom", 0>> }

\* a thread about to make the call c; pos, result, seen and ticket are filled
\* in as it runs (seen and ticket are not program state: the levels the name
\* has had since the call began, for a lookup since it took the lock, and
\* the order in which writers finished)
ThreadNew(c, reg) ==
  [kind |-> c[1], name |-> c[2], level |-> c[3], pc |-> "start",
   pos |-> 0, result |-> None, seen |-> {level_for_type(reg, c[2])},
   ticket |-> 0]

\* RwLock::write can be taken even while the lock is held
can_write_unlocked(lk) == TRUE

\* RwLock::write: no writer and no reader holds the lock
can_write(lk) == lk.writer = None /\ lk.readers = {}

\* RwLock::read: no writer holds the lock
can_read(lk) == lk.writer = None

\* guard.iter_mut().find(|(n, _)| n == name): the index of the first entry
\* with the name, 0 when there is none
find_entry(reg, name) ==
  LET hits == { i \in 1..Len(reg) : reg[i][1] = name }
  IN IF hits = {} THEN 0 ELSE CHOOSE i \in hits : \A j \in hits : i <= j

\* the two arms of register_type
store_entry(reg, pos, name, level) ==
  IF pos # 0 THEN [reg EXCEPT ![pos] = <<name, level>>]
  ELSE Append(reg, <<name, level>>)

\* every running call on a name notes the level the name has now
NoteLevel(ths, reg) ==
  [u \in DOMAIN ths |->
     IF ths[u].pc # "done"
     THEN [ths[u] EXCEPT !.seen = @ \cup {level_for_type(reg, ths[u].name)}]
     ELSE ths[u]]

RegistryFrame ==
  /\ UNCHANGED << call, twin >>
  /\ UNCHANGED logger_vars

\* register_type: TYPE_REGISTRY.write().unwrap(), which panics on a poisoned
\* lock
AcquireWrite ==
  /\ \E t \in DOMAIN threads :
       /\ threads[t].kind = "register_type"
       /\ threads[t].pc = "start"
       /\ can_write(lock)
       /\ IF lock.poisoned
          THEN /\ threads' = [threads EXCEPT ![t].pc = "panicked"]
               /\ UNCHANGED lock
          ELSE /\ lock' = [lock EXCEPT !.writer = Some(t)]
               /\ threads' = [threads EXCEPT ![t].pc = "locked"]
  /\ UNCHANGED registry
  /\ RegistryFrame

\* register_type: the search for an entry with the name
FindEntry ==
  /\ \E t \in DOMAIN threads :
       /\ threads[t].pc = "locked"
       /\ threads' = [threads EXCEPT ![t].pc = "found",
                                     ![t].pos = find_entry(registry, threads[t].name)]
  /\ UNCHANGED << registry, lock >>
  /\ RegistryFrame

\* register_type: the entry is replaced or pushed, and the guard dropped
StoreEntry ==
  /\ \E t \in DOMAIN threads :
       /\ threads[t].pc = "found"
       /\ registry' = store_entry(registry, threads[t].pos, threads[t].name,
                                  threads[t].level)
       /\ lock' = IF lock.writer = Some(t) THEN [lock EXCEPT !.writer = None]
                  ELSE lock
       /\ threads' =
            NoteLevel([threads EXCEPT
                         ![t].pc = "done",
                         ![t].ticket = 1 + Cardinality({ u \in DOMAIN threads :
                                                          threads[u].ticket > 0 })],
                      registry')
  /\ RegistryFrame

\* level_for_type: TYPE_REGISTRY.read().unwrap(), which panics on a poisoned
\* lock
AcquireRead ==
  /\ \E t \in DOMAIN threads :
       /\ threads[t].kind = "level_for_type"
       /\ threads[t].pc = "start"
       /\ can_read(lock)
       /\ IF lock.poisoned
          THEN /\ threads' = [threads EXCEPT ![t].pc = "panicked"]
               /\ UNCHANGED lock
          ELSE /\ lock' = [lock EXCEPT !.readers = @ \cup {t}]
               /\ threads' = [threads EXCEPT
                                ![t].pc = "reading",
                                ![t].seen = {level_for_type(registry,
                                                            threads[t].name)}]
  /\ UNCHANGED registry
  /\ RegistryFrame

\* level_for_type: the search, and the guard dropped
LookupEntry ==
  /\ \E t \in DOMAIN threads :
       /\ threads[t].pc = "reading"
       /\ lock' = [lock EXCEPT !.readers = @ \ {t}]
       /\ threads' = [threads EXCEPT
                        ![t].pc = "done",
                        ![t].result = level_for_type(registry, threads[t].name)]
  /\ UNCHANGED registry
  /\ RegistryFrame

\* NThreads threads, each making one call on the built-in registry
InitRegistry ==
  /\ InitNoLogger
  /\ call = NoCall
  /\ twin = None
  /\ lock = LockFree
  /\ \E cs \in [1..NThreads -> RegistryCalls] :
       threads = [t \in 1..NThreads |-> ThreadNew(cs[t], TYPE_REGISTRY)]

NextRegistry ==
  AcquireWrite \/ FindEntry \/ StoreEntry \/ AcquireRead \/ LookupEntry

SpecRegistry == InitRegistry /\ [][NextRegistry]_vars

\* a thread panics while it holds the write guard (guard.push past the
\* capacity a Vec can have, or an allocation failing under a handler that
\* panics): the guard is dropped during unwinding and the lock is poisoned
PanicLocked ==
  /\ \E t \in DOMAIN threads :
       /\ threads[t].pc \in {"locked", "found"}
       /\ lock.writer = Some(t)
       /\ lock' = [lock EXCEPT !.writer = None, !.poisoned = TRUE]
       /\ threads' = [threads EXCEPT ![t].pc = "died"]
  /\ UNCHANGED registry
  /\ RegistryFrame

NextPoison == NextRegistry \/ PanicLocked

SpecPoison == InitRegistry /\ [][NextPoison]_vars

\* ------------------------------------------------------- registration while logging
\* names and levels registered while a logger runs
RegisteredNames == {"info", "custom"}

RegisteredLevels == {ERROR, DEBUG}

\* a record whose level is looked up again in a registry
relevel(reg, rec) ==
  [rec EXCEPT !.level = unwrap_or(level_for_type(reg, rec.type_name), LOG)]

\* register_type that looks up again the level of the records the logger holds
RegisterType_relevels ==
  /\ alive
  /\ \E n \in RegisteredNames, l \in RegisteredLevels :
       /\ level_for_type(registry, n) # Some(l)
       /\ registry' = store_entry(registry, find_entry(registry, n), n, l)
  /\ queue' = [i \in 1..Len(queue) |-> relevel(registry', queue[i])]
  /\ state' = IF state.stored = None THEN state
              ELSE [state EXCEPT !.stored = Some(relevel(registry', @[1]))]
  /\ op' = OpInfo("register_type", None, FALSE, 0)
  /\ out' = <<>>
  /\ fed' = <<>>
  /\ UNCHANGED << cfg, paused, clock, alive, ncalls, nemitted, evicted >>
  /\ Dispatch

\* register_type called by the thread that owns the logger, between two of
\* its operations
RegisterType ==
  /\ alive
  /\ \E n \in RegisteredNames, l \in RegisteredLevels :
       /\ level_for_type(registry, n) # Some(l)
       /\ registry' = store_entry(registry, find_entry(registry, n), n, l)
  /\ op' = OpInfo("register_type", None, FALSE, 0)
  /\ out' = <<>>
  /\ fed' = <<>>
  /\ UNCHANGED << cfg, state, paused, queue, clock, alive, ncalls, nemitted,
                  evicted >>
  /\ Dispatch

\* Logger::log with a type that registrations change
LogRegistered ==
  /\ alive
  /\ ncalls < MaxCalls
  /\ \E t \in RegisteredNames, tag \in Tags, m \in Msgs :
       Submit("log", new_with_timestamp(registry, t, tag, <<ArgString(m)>>,
                                        clock, ncalls + 1))

InitRegisterLog == InitWith({INFO}, {1}, {2}, {None})

NextRegisterLog ==
  LogRegistered \/ RegisterType \/ Flush \/ Pause \/ Resume

SpecRegisterLog == InitRegisterLog /\ [][NextRegisterLog]_vars

\* ------------------------------------------------- levels.rs: normalize_level
\* normalize_level that looks the input up as a type name first
normalize_level_type_first(reg, chars) ==
  IF level_for_type(reg, StrOf(chars)) # None
  THEN level_for_type(reg, StrOf(chars))
  ELSE parse_i16(chars)

\* normalize_level on an input given as its characters
normalize_level(reg, chars) ==
  IF parse_i16(chars) # None
  THEN Some(parse_i16(chars)[1])
  ELSE level_for_type(reg, StrOf(chars))

\* inputs of normalize_level
NormalizeInputs ==
  { <<"i", "n", "f", "o">>, <<"4">>, <<"b", "o", "g", "u", "s">>,
    <<"d", "e", "b", "u", "g">>, <<"-", "9", "9">>, <<"+", "4">>,
    <<"0", "0", "7">>, <<"3", "2", "7", "6", "7">>, <<"3", "2", "7", "6", "8">>,
    <<"-", "3", "2", "7", "6", "8">>, <<"-", "3", "2", "7", "6", "9">>,
    <<>>, <<"-">>, <<"4", "x">>, <<" ", "4">> }

\* type names registered before normalize_level is called
NormalizeNames == {"4", "bogus", "32768", "-99"}

\* register_type with a name that may read as a number
RegisterName ==
  /\ \E n \in NormalizeNames :
       /\ level_for_type(registry, n) = None
       /\ registry' = store_entry(registry, find_entry(registry, n), n, TRACE)
  /\ call' = NoCall
  /\ UNCHANGED << lock, threads, twin >>
  /\ UNCHANGED logger_vars

\* one call of normalize_level
NormalizeLevel ==
  /\ \E chars \in NormalizeInputs :
       call' = [name |-> "normalize_level", input |-> chars,
                result |-> normalize_level(registry, chars)]
  /\ UNCHANGED << registry, lock, threads, twin >>
  /\ UNCHANGED logger_vars

InitNormalize == InitNoLogger /\ AuxIdle

NextNormalize == RegisterName \/ NormalizeLevel

SpecNormalize == InitNormalize /\ [][NextNormalize]_vars

\* ------------------------------------------------ error_chain.rs: collect_chain
\* the error objects of a graph
Errors == 1..NErrors

\* Display of an error object
to_string(n) == "error " \o DecimalDigits[n + 1]

\* the source() links of the error objects
SourceLinks == [Errors -> {None} \cup { Some(m) : m \in Errors }]

\* the parent that holds error n as its first field, 0 when n is a value of
\* its own
holder(g, n) ==
  LET ps == { p \in Errors : g.inline[p] /\ g.source[p] = Some(n) }
  IN IF ps = {} THEN 0 ELSE CHOOSE p \in ps : TRUE

\* the outermost value that holds error n, after at most k holders
RECURSIVE outermost(_, _, _)
outermost(g, n, k) ==
  IF k = 0 \/ holder(g, n) = 0 THEN n ELSE outermost(g, holder(g, n), k - 1)

\* an error graph a program can build: a source is either a value of its
\* own, reached through a reference or a box, or the first field of the
\* error that returns it; a value is the first field of one value at most
\* and never of itself
ErrorGraphs ==
  { g \in [source : SourceLinks, inline : [Errors -> BOOLEAN]] :
      /\ \A p \in Errors : g.inline[p] => g.source[p] # None
      /\ \A p, q \in Errors :
           (p # q /\ g.inline[p] /\ g.inline[q]) => g.source[p] # g.source[q]
      /\ \A n \in Errors : holder(g, outermost(g, n, NErrors)) = 0 }

\* (e as *const dyn Error) as *const () as usize: the address of the value,
\* which a first field shares with the value that holds it
addr(g, n) == outermost(g, n, NErrors)

\* one pass of the while-let loop that pushes without looking at `seen`
chain_step_no_guard(c) ==
  IF c.cur = None THEN [c EXCEPT !.pc = "done"]
  ELSE LET e == c.cur[1]
           ptr == addr(c.graph, e)
       IN [c EXCEPT !.seen = @ \cup {ptr},
                    !.out = Append(@, [node |-> e, text |-> to_string(e)]),
                    !.cur = c.graph.source[e]]

\* one pass of the while-let loop of collect_chain
chain_step(c) ==
  IF c.cur = None THEN [c EXCEPT !.pc = "done"]
  ELSE LET e == c.cur[1]
           ptr == addr(c.graph, e)
       IN IF ptr \in c.seen THEN [c EXCEPT !.pc = "done"]
          ELSE [c EXCEPT !.seen = @ \cup {ptr},
                         !.out = Append(@, [node |-> e, text |-> to_string(e)]),
                         !.cur = c.graph.source[e]]

ChainFrame ==
  /\ UNCHANGED << registry, lock, threads, twin >>
  /\ UNCHANGED logger_vars

\* collect_chain is entered with an error of some graph
CollectChain ==
  /\ call = NoCall
  /\ \E g \in ErrorGraphs, err \in Errors :
       call' = [name |-> "collect_chain", graph |-> g, err |-> err,
                cur |-> Some(err), seen |-> {}, out |-> <<>>, pc |-> "loop"]
  /\ ChainFrame

\* the loop of collect_chain, one pass at a time
ChainStep ==
  /\ call.name = "collect_chain"
  /\ call.pc = "loop"
  /\ call' = chain_step(call)
  /\ ChainFrame

InitChain == InitNoLogger /\ AuxIdle

NextChain == CollectChain \/ ChainStep

SpecChain == InitChain /\ [][NextChain]_vars

\* ------------------------------------------------ record.rs: record builders
\* ArgValue::Error(s)
ArgError(s) == [kind |-> "Error", val |-> s]

\* the fields a constructor sets to None
with_no_extras(rec) ==
  rec @@ [additional |-> None, meta |-> None, stack |-> None,
          error_chain |-> None]

\* LogRecord::with_additional
with_additional(rec, additional) == [rec EXCEPT !.additional = Some(additional)]

\* LogRecord::with_meta
with_meta(rec, meta) == [rec EXCEPT !.meta = Some(meta)]

\* LogRecord::with_stack
with_stack(rec, lines) == [rec EXCEPT !.stack = Some(lines)]

\* LogRecord::with_error_chain
with_error_chain(rec, chain) == [rec EXCEPT !.error_chain = Some(chain)]

\* the loop of collect_chain run to its end
RECURSIVE chain_run(_)
chain_run(c) == IF c.pc = "done" THEN c ELSE chain_run(chain_step(c))

\* collect_chain: the strings pushed to the output
collect_chain(g, err) ==
  LET c == chain_run([name |-> "collect_chain", graph |-> g, err |-> err,
                      cur |-> Some(err), seen |-> {}, out |-> <<>>,
                      pc |-> "loop"])
  IN [i \in 1..Len(c.out) |-> c.out[i].text]

\* LogRecord::attach_error and LogRecord::attach_dyn_error (the same body)
attach_error(rec, g, err) ==
  LET args == Append(rec.args, ArgError(to_string(err)))
  IN [rec EXCEPT !.args = args,
                 !.error_chain = IF @ = None THEN Some(collect_chain(g, err))
                                 ELSE @,
                 !.message = build_message(args)]

\* the records merge_defaults can return for a whole record
merge_defaults_into(rec, defaults) ==
  { [rec EXCEPT !.tag = m.tag, !.additional = m.additional, !.meta = m.meta] :
      m \in merge_defaults([tag |-> rec.tag, additional |-> rec.additional,
                            meta |-> rec.meta], defaults) }

\* the errors attached to records: one without source, one with a source
AttachedGraphs ==
  { g \in ErrorGraphs :
      /\ \A n \in Errors : ~g.inline[n]
      /\ g.source[1] \in {None, Some(2)}
      /\ \A n \in Errors \ {1} : g.source[n] = None }

\* defaults merged into records under construction
BuilderDefaults ==
  { [tag |-> Some("dt"), additional |-> Some(<<ArgString("d")>>),
     meta |-> Some(<< <<"k1", ArgString("d1")>> >>)],
    RecordDefaultsDefault }

RecordFrame ==
  /\ UNCHANGED << registry, lock, threads, twin >>
  /\ UNCHANGED logger_vars

\* one more builder call on the record under construction
Rebuilt(name, rec) ==
  /\ call.name = "record"
  /\ call.nops < MaxCalls
  /\ call' = [call EXCEPT !.rec = rec, !.last = name, !.nops = @ + 1]
  /\ RecordFrame

WithAdditional ==
  /\ call.name = "record"
  /\ \E a \in {<<>>, <<ArgString("x")>>} :
       Rebuilt("with_additional", with_additional(call.rec, a))

WithMeta ==
  /\ call.name = "record"
  /\ \E m \in { <<>>, << <<"k1", ArgString("r1")>> >> } :
       Rebuilt("with_meta", with_meta(call.rec, m))

WithStack ==
  /\ call.name = "record"
  /\ \E l \in {<<>>, <<"at main">>} :
       Rebuilt("with_stack", with_stack(call.rec, l))

WithErrorChain ==
  /\ call.name = "record"
  /\ \E c \in {<<>>, <<"boom">>} :
       Rebuilt("with_error_chain", with_error_chain(call.rec, c))

AttachError ==
  /\ call.name = "record"
  /\ \E g \in AttachedGraphs :
       Rebuilt("attach_error", attach_error(call.rec, g, 1))

AttachDynError ==
  /\ call.name = "record"
  /\ \E g \in AttachedGraphs :
       Rebuilt("attach_dyn_error", attach_error(call.rec, g, 1))

MergeDefaultsInto ==
  /\ call.name = "record"
  /\ \E d \in BuilderDefaults :
       \E r \in merge_defaults_into(call.rec, d) :
         Rebuilt("merge_defaults", r)

\* a record fresh from LogRecord::raw or LogRecord::new_with_timestamp
InitRecord ==
  /\ InitNoLogger
  /\ lock = LockFree
  /\ threads = NoThreads
  /\ twin = None
  /\ \E r \in { raw(TYPE_REGISTRY, "info", None, "a", 0, 1),
                raw(TYPE_REGISTRY, "info", Some("t"), "", 0, 1),
                new_with_timestamp(TYPE_REGISTRY, "info", None,
                                   <<ArgString("a")>>, 0, 1) } :
       call = [name |-> "record", built |-> r, rec |-> with_no_extras(r),
               last |-> "new", nops |-> 0]

NextRecord ==
  \/ WithAdditional \/ WithMeta \/ WithStack \/ WithErrorChain
  \/ AttachError \/ AttachDynError \/ MergeDefaultsInto

SpecRecord == InitRecord /\ [][NextRecord]_vars

\* a logger built with record defaults, then used
InitDefaults == InitBuilder /\ env = None

NextDefaults == WithDefaults \/ Build \/ Log \/ LogRaw \/ Flush

SpecDefaults == InitDefaults /\ [][NextDefaults]_vars

\* records that differ in type and tag only
InitTags == InitWith({VERBOSE}, {1}, {2, 3}, {None})

NextTags == LogTagged \/ LogEdge \/ LogRawEmpty \/ Flush \/ Tick

SpecTags == InitTags /\ [][NextTags]_vars

\* two loggers built at different moments, given the same operations at the
\* same clock offsets
TwinBases == {5}

InitTwin ==
  /\ InitLogger({INFO}, {1}, {2}, {None, Some(1)})
  /\ call = NoCall
  /\ lock = LockFree
  /\ threads = NoThreads
  /\ \E b \in TwinBases : twin = Some(TwinNew(b))

NextTwin == Log \/ LogRaw \/ Flush \/ Pause \/ Resume \/ Tick

SpecTwin == InitTwin /\ [][NextTwin]_vars

Init == InitWith({VERBOSE}, {1}, {2}, {None, Some(0), Some(1)})

Next == Log \/ LogRaw \/ Flush \/ Pause \/ Resume \/ SetLevel \/ Drop \/ Tick

Spec == Init /\ [][Next]_vars

\* a logger whose level is never changed after construction
InitFixedLevel == InitWith(Levels, {1}, {2}, {None, Some(1), Some(2)})

NextFixedLevel == Log \/ LogRaw \/ Flush \/ Pause \/ Resume \/ Drop \/ Tick

SpecFixedLevel == InitFixedLevel /\ [][NextFixedLevel]_vars

\* log calls and flushes only, under every throttler configuration
InitLogFlush == InitWith({VERBOSE}, Windows, MinCounts, {None})

NextLogFlush == Log \/ LogRaw \/ Flush \/ Tick

SpecLogFlush == InitLogFlush /\ [][NextLogFlush]_vars

\* pause, resume and drop under min_count 2 and 3
InitLifecycle == InitWith({VERBOSE}, {1}, {2, 3}, {None, Some(1)})

NextLifecycle == Log \/ LogRaw \/ Flush \/ Pause \/ Resume \/ Drop \/ Tick

SpecLifecycle == InitLifecycle /\ [][NextLifecycle]_vars

\* emission through mock and reporter, the reporter's writes failing or not
InitEmit == InitWith({VERBOSE}, {1}, {2, 3}, {None})

NextEmit ==
  \/ Log \/ Error \/ Flush \/ Pause \/ Resume
  \/ SetMock \/ ClearMock \/ SinkChange

SpecEmit == InitEmit /\ [][NextEmit]_vars

\* the operations of a live logger with a bounded queue, time standing still
InitOps == InitWith({VERBOSE}, {1}, {2}, {Some(0), Some(1), Some(2)})

NextOps == Log \/ LogRaw \/ Flush \/ Pause \/ Resume \/ SetLevel

SpecOps == InitOps /\ [][NextOps]_vars

\* every throttler configuration, with pause, resume and a mock
InitAnyConfig == InitWith({VERBOSE}, Windows, MinCounts, {None})

NextAnyConfig ==
  Log \/ Flush \/ Pause \/ Resume \/ Tick \/ SetMock

SpecAnyConfig == InitAnyConfig /\ [][NextAnyConfig]_vars

\* raw and formatted calls with equal and with empty messages
InitFingerprint == InitWith({VERBOSE}, {1}, {2, 3}, {None})

NextFingerprint ==
  Log \/ LogRaw \/ LogEdge \/ LogRawEmpty \/ Flush \/ Tick

SpecFingerprint == InitFingerprint /\ [][NextFingerprint]_vars

TypeOK ==
  /\ paused \in BOOLEAN
  /\ alive \in BOOLEAN
  /\ clock \in 0..MaxTime
  /\ ncalls \in 0..MaxCalls

\* ------------------------------------------------------- properties
\* the step is a log / log_raw call whose record reached the throttler
FedStep == ncalls' = ncalls + 1 /\ op'.passed /\ ~paused

\* the record built by the call of this step
Logged == op'.rec[1]

\* the current group's aggregated record went out at the threshold and no
\* identical record has arrived since
AggregatedJustEmitted ==
  /\ state.stored # None
  /\ state.emitted
  /\ state.count >= 2
  /\ state.count = cfg.throttle.min_count

\* C1: once the aggregated record of a group has been emitted at min_count
\* and nothing identical has arrived since, the flush done by flush(),
\* pause() or drop emits nothing.
C1_NoReEmitAfterAggregate ==
  [][ (AggregatedJustEmitted /\ op'.name \in {"flush", "pause", "drop"})
        => out' = <<>> ]_vars

\* C2: after any sequence of log calls and a final flush(), the reporter has
\* received at most as many records as log calls were made.
C2_EmittedAtMostCalls == op.name = "flush" => nemitted <= ncalls

\* the logged record continues the current group: same fingerprint, not
\* later than `window` after the group's first record
SameRun ==
  /\ state.current_fp = Some(fingerprint(Logged))
  /\ duration_since(Logged.timestamp, state.first_time[1]) <= cfg.throttle.window

\* C3: in a run of identical records inside one window the 1st call emits
\* with repetition_count 1, calls 2..m-1 emit nothing, the m-th call emits
\* one aggregated record with repetition_count m (the number of occurrences
\* so far), and later identical calls emit nothing.
C3_CoalesceAtThreshold ==
  [][ FedStep =>
        /\ state.current_fp = None =>
             /\ Len(out') = 1
             /\ out'[1] = [Logged EXCEPT !.repetition_count = 1]
             /\ state'.count = 1
        /\ (state.current_fp # None /\ SameRun) =>
             /\ state'.count = state.count + 1
             /\ IF state'.count = cfg.throttle.min_count
                THEN /\ Len(out') = 1
                     /\ out'[1].repetition_count = cfg.throttle.min_count
                     /\ out'[1].id = state.stored[1].id
                ELSE out' = <<>> ]_vars

\* the third identical call under min_count = 3 emitted the aggregated record
C3_Witness ==
  /\ op.name = "log"
  /\ cfg.throttle.min_count = 3
  /\ state.count = 3
  /\ Len(out) = 1
  /\ out[1].repetition_count = 3
  /\ out[1].id = 1

\* C4: flush() on a group of k occurrences, 2 <= k < min_count, emits exactly
\* one record with repetition_count k and empties the throttler, so the next
\* flush() emits nothing.
C4_FlushReleasesSuppressed ==
  [][ op'.name = "flush" =>
        /\ (state.stored # None /\ state.count >= 2
              /\ state.count < cfg.throttle.min_count) =>
             /\ Len(out') = 1
             /\ out'[1].repetition_count = state.count
             /\ out'[1].id = state.stored[1].id
        /\ state' = ThrottleStateNew
        /\ state = ThrottleStateNew => out' = <<>> ]_vars

\* a flush released a group of two occurrences below min_count = 3
C4_Witness ==
  /\ op.name = "flush"
  /\ cfg.throttle.min_count = 3
  /\ Len(out) = 1
  /\ out[1].repetition_count = 2
  /\ state = ThrottleStateNew

\* the logged record arrives more than `window` after the group's first record
Expired ==
  /\ state.current_fp # None
  /\ duration_since(Logged.timestamp, state.first_time[1]) > cfg.throttle.window

\* occurrences of the current group were suppressed since its last emission
Suppressed == state.count > 1 /\ state.count # cfg.throttle.min_count

\* C5: a record arriving more than `window` after the group's first record
\* closes the old group (its aggregated record with the old count goes out
\* first when occurrences were suppressed) and is then emitted as the first
\* record of a new group with repetition_count 1; a record arriving exactly
\* `window` after the first one still counts in the old group.
C5_WindowExpiry ==
  [][ FedStep =>
        /\ Expired =>
             /\ out' # <<>>
             /\ out'[Len(out')] = [Logged EXCEPT !.repetition_count = 1]
             /\ state'.count = 1
             /\ state'.first_time = Some(Logged.timestamp)
             /\ state'.current_fp = Some(fingerprint(Logged))
             /\ Suppressed =>
                  /\ Len(out') = 2
                  /\ out'[1] = state.stored[1]
                  /\ out'[1].repetition_count = state.count
             /\ state.count = 1 => Len(out') = 1
        /\ ( /\ state.current_fp = Some(fingerprint(Logged))
             /\ Logged.timestamp - state.first_time[1] = cfg.throttle.window ) =>
             /\ state'.count = state.count + 1
             /\ state'.first_time = state.first_time ]_vars

\* an identical record after the window: the old group's count 2 went out,
\* then the new record with count 1
C5_Witness ==
  /\ op.name = "log"
  /\ cfg.throttle.min_count = 3
  /\ Len(out) = 2
  /\ fingerprint(out[1]) = fingerprint(out[2])
  /\ out[1].repetition_count = 2
  /\ out[2].repetition_count = 1
  /\ out[2].timestamp - out[1].timestamp > cfg.throttle.window
  /\ state.count = 1

\* the step is a log / log_raw call whose record went to the pause queue
EnqueueStep == ncalls' = ncalls + 1 /\ op'.passed /\ paused

\* the step is a resume() of a paused logger
ResumeStep == op'.name = "resume" /\ paused

\* the queue is bounded by a capacity of at least 1
Bounded == cfg.queue_capacity # None /\ cfg.queue_capacity[1] >= 1

Ids(recs) == [i \in 1..Len(recs) |-> recs[i].id]

AsFirst(recs) == [i \in 1..Len(recs) |-> [recs[i] EXCEPT !.repetition_count = 1]]

\* at capacity the oldest queued record goes before the new one is pushed
OldestDropped ==
  (EnqueueStep /\ Bounded) =>
     /\ Len(queue) <= cfg.queue_capacity[1]
     /\ queue' = Append(IF Len(queue) = cfg.queue_capacity[1]
                        THEN Tail(queue) ELSE queue, Logged)

NoAdjacentRepeat(recs) ==
  \A i \in 1..(Len(recs) - 1) : fingerprint(recs[i]) # fingerprint(recs[i + 1])

C7_EmittedWithinLevel == \A i \in 1..Len(out) : out[i].level <= cfg.level

\* a record above the configured level was dropped after others were emitted
C7_Witness ==
  /\ op.name = "log"
  /\ op.rec[1].level > cfg.level
  /\ ~op.passed
  /\ out = <<>>
  /\ nemitted > 0

KeepNow(r) == r.level <= cfg.level

Increasing(ids) == \A i \in 1..(Len(ids) - 1) : ids[i] < ids[i + 1]

\* C9: resume() hands every queued record that passes the filter to the
\* throttler in enqueue (call) order and returns with the queue empty.
C9_ResumeDrainsInOrder ==
  [][ ResumeStep =>
        /\ Increasing(Ids(queue))
        /\ fed' = Ids(SelectSeq(queue, KeepNow))
        /\ queue' = <<>>
        /\ ~paused' ]_vars

\* a resume processed two queued records
C9_Witness ==
  /\ op.name = "resume"
  /\ op.passed
  /\ Len(fed) >= 2
  /\ queue = <<>>
  /\ ~paused

\* the records fed one after the other to the throttler
RECURSIVE process_all(_, _, _)
process_all(recs, st, c) ==
  IF recs = <<>> THEN [state |-> st, emits |-> <<>>]
  ELSE LET r == process_record(st, c, Head(recs))
           rest == process_all(Tail(recs), r.state, c)
       IN [state |-> rest.state, emits |-> r.emits \o rest.emits]

\* C10: the drain filters with the level configured at resume time; a queued
\* record above it is dropped without emission and without touching the
\* throttler, the others are processed in their original order.
C10_DrainRefilters ==
  [][ ResumeStep =>
        LET keep == SelectSeq(queue, KeepNow)
            f == throttler_flush(state)
            ref == process_all(keep, f.state, cfg)
        IN /\ out' = f.emits \o ref.emits
           /\ state' = ref.state
           /\ fed' = Ids(keep)
           /\ op'.ndropped = Len(queue) - Len(keep)
           /\ \A i \in 1..Len(out') : out'[i].level <= cfg.level ]_vars

\* a resume dropped one queued record and processed another
C10_Witness ==
  /\ op.name = "resume"
  /\ op.ndropped >= 1
  /\ Len(fed) >= 1
  /\ out # <<>>

\* the step is a pause() of an unpaused logger
PauseStep == op'.name = "pause" /\ ~paused

\* C11: pause() on an unpaused logger flushes the throttler (the pending
\* group's aggregated record goes out with its count when occurrences were
\* suppressed, nothing goes out for a group seen once, and the throttler is
\* left empty) and sets paused in the same call; a record logged while paused
\* is queued and not emitted, so the flush emission precedes it.
C11_PauseFlushesFirst ==
  [][ /\ PauseStep =>
          /\ paused'
          /\ state' = ThrottleStateNew
          /\ queue' = queue
          /\ Suppressed =>
                out' = << [state.stored[1] EXCEPT !.repetition_count = state.count] >>
          /\ (state.stored = None \/ (state.count = 1 /\ state.emitted)) => out' = <<>>
      /\ EnqueueStep =>
          /\ out' = <<>>
          /\ state' = state
          /\ queue' # <<>> /\ queue'[Len(queue')] = Logged ]_vars

\* a pause emitted the aggregated record of a group with a suppressed
\* occurrence
C11_Witness ==
  /\ op.name = "pause"
  /\ paused
  /\ Len(out) = 1
  /\ out[1].repetition_count = 2
  /\ cfg.throttle.min_count = 3
  /\ state = ThrottleStateNew

\* the ids of the queued records
QueuedIds == { queue[j].id : j \in 1..Len(queue) }

\* C12: flush() changes only the throttler: the queue, the paused flag and
\* the configuration are as before and no queued record is fed or emitted;
\* a queued record is emitted, and a non-empty queue becomes empty, only in
\* a resume().
C12_FlushOnlyThrottler ==
  [][ /\ op'.name = "flush" =>
          /\ queue' = queue
          /\ paused' = paused
          /\ cfg' = cfg
          /\ fed' = <<>>
          /\ \A i \in 1..Len(out') : out'[i].id \notin QueuedIds
          /\ state' = ThrottleStateNew
      /\ (\E i \in 1..Len(out') : out'[i].id \in QueuedIds) => ResumeStep
      /\ (queue # <<>> /\ queue' = <<>>) => ResumeStep ]_vars

\* a flush() of a paused logger with a queued record
C12_Witness ==
  /\ op.name = "flush"
  /\ paused
  /\ queue # <<>>
  /\ out = <<>>

\* the records the last operation's emit calls passed to the mock
MockCalls(ev) ==
  LET m == SelectSeq(ev, LAMBDA e : e.to = "mock")
  IN [i \in 1..Len(m) |-> m[i].rec]

\* the records the last operation's emit calls passed to the reporter
ReporterCalls(ev) ==
  LET m == SelectSeq(ev, LAMBDA e : e.to # "mock")
  IN [i \in 1..Len(m) |-> m[i].rec]

\* C13: with a mock installed every emission is one mock call directly
\* followed by the reporter's call for the same record, first occurrences
\* and aggregated records alike, so both see the same sequence; without a
\* mock (never set, or cleared) the reporter alone receives the records.
C13_MockBeforeReporter ==
  [][ /\ ReporterCalls(events') = out'
      /\ mock_fn' = IF op'.name = "set_mock" THEN TRUE
                    ELSE IF op'.name = "clear_mock" THEN FALSE ELSE mock_fn
      /\ mock_fn' =>
          /\ Len(events') = 2 * Len(out')
          /\ MockCalls(events') = out'
          /\ \A i \in 1..Len(out') :
                /\ events'[2 * i - 1].to = "mock"
                /\ events'[2 * i].to # "mock"
                /\ events'[2 * i - 1].rec = events'[2 * i].rec
      /\ ~mock_fn' => MockCalls(events') = <<>> ]_vars

\* one call handed a closed group's aggregated record and a first occurrence
\* to the mock and to the reporter
C13_Witness ==
  /\ mock_fn
  /\ Len(events) = 4
  /\ events[1].to = "mock"
  /\ events[1].rec.repetition_count = 2
  /\ events[3].rec.repetition_count = 1
  /\ MockCalls(events) = out

AfterOk ==
  IF op'.name = "log"
  THEN IF ~op'.passed
       THEN [state |-> state, queue |-> queue, paused |-> paused, emits |-> <<>>]
       ELSE IF paused
       THEN [state |-> state, queue |-> enqueue(cfg, queue, Logged),
             paused |-> TRUE, emits |-> <<>>]
       ELSE LET r == process_all(<<Logged>>, state, cfg)
            IN [state |-> r.state, queue |-> queue, paused |-> FALSE,
                emits |-> r.emits]
  ELSE IF op'.name = "flush" \/ (op'.name = "pause" /\ ~paused)
  THEN [state |-> ThrottleStateNew, queue |-> queue,
        paused |-> (paused \/ op'.name = "pause"),
        emits |-> throttler_flush(state).emits]
  ELSE IF op'.name = "resume" /\ paused
  THEN LET keep == SelectSeq(queue, KeepNow)
           f == throttler_flush(state)
           r == process_all(keep, f.state, cfg)
       IN [state |-> r.state, queue |-> <<>>, paused |-> FALSE,
           emits |-> f.emits \o r.emits]
  ELSE [state |-> state, queue |-> queue, paused |-> paused, emits |-> <<>>]

C17_DropFlushesOnce ==
  [][ op'.name = "drop" =>
        /\ state' = ThrottleStateNew
        /\ Suppressed =>
              out' = << [state.stored[1] EXCEPT !.repetition_count = state.count] >>
        /\ ~Suppressed => out' = <<>> ]_vars

\* C18: the reporter writes a record to stderr exactly when its level is
\* <= ERROR and to stdout otherwise, whatever its type.
C18_SinkByLevel ==
  \A i \in 1..Len(events) :
    events[i].to # "mock" =>
      /\ events[i].to \in {"stderr", "stdout"}
      /\ events[i].to = "stderr" <=> events[i].rec.level <= ERROR
      /\ events[i].to = "stdout" <=> events[i].rec.level > ERROR

\* one call wrote an info record to stdout and an error record to stderr
C18_Witness ==
  /\ Len(events) = 2
  /\ events[1].to = "stdout"
  /\ events[1].rec.level = INFO
  /\ events[2].to = "stderr"
  /\ events[2].rec.level = ERROR

\* the record of the pending group
Pending == state.stored[1]

\* the pending group's record and the logged one agree on type, tag and
\* message text
SameText ==
  /\ state.stored # None
  /\ Pending.type_name = Logged.type_name
  /\ Pending.tag = Logged.tag
  /\ Pending.message # None
  /\ Pending.message = Logged.message

EnvLevel ==
  IF env = None THEN None
  ELSE IF parse_i16(env[1]) # None THEN parse_i16(env[1])
  ELSE level_for_type(registry, StrOf(env[1]))

\* C20: the built logger has the level last passed to with_level when
\* with_level was called, before or after from_env; otherwise the level
\* CONSOLA_LEVEL denotes when from_env was called and it denotes one;
\* otherwise the default level.
C20_WithLevelWins ==
  op.name = "build" =>
    /\ builder.explicit # None => cfg.level = builder.explicit[1]
    /\ (builder.explicit = None /\ builder.env_applied /\ EnvLevel # None) =>
          cfg.level = EnvLevel[1]
    /\ (builder.explicit = None /\ (~builder.env_applied \/ EnvLevel = None)) =>
          cfg.level = VERBOSE

\* C21: every record emitted by a logger built with a default tag carries
\* a tag (its own, or the default one when it was logged without).
C21_DefaultsMerged ==
  \A i \in 1..Len(out) :
    builder.defaults.tag # None =>
      out[i].tag = IF op.rec # None /\ op.rec[1].tag # None
                   THEN op.rec[1].tag ELSE builder.defaults.tag

\* an absent list read as the empty one
ListOf(opt) == IF opt = None THEN <<>> ELSE opt[1]

\* the result of the merge_defaults call
Merged == call.result[1]

\* C22: merge_defaults keeps the record's tag when present and otherwise
\* takes the default tag; the resulting additional list is the defaults'
\* followed by the record's; the resulting meta holds every key of either
\* side exactly once, with the record's value when both sides have the key
\* and the default's value otherwise.
C22_MergeRule ==
  (call.name = "merge_defaults" /\ call.result # None) =>
    LET rm == ListOf(call.rec.meta)
        dm == ListOf(call.defaults.meta)
        res == ListOf(Merged.meta)
    IN /\ Merged.tag = IF call.rec.tag # None THEN call.rec.tag
                       ELSE call.defaults.tag
       /\ ListOf(Merged.additional)
            = ListOf(call.defaults.additional) \o ListOf(call.rec.additional)
       /\ MetaKeys(res) = MetaKeys(rm) \cup MetaKeys(dm)
       /\ \A i, j \in 1..Len(res) : i # j => res[i][1] # res[j][1]
       /\ \A i \in 1..Len(res) :
            IF res[i][1] \in MetaKeys(rm)
            THEN \E j \in 1..Len(rm) : rm[j] = res[i]
            ELSE \E j \in 1..Len(dm) : dm[j] = res[i]

\* the names in the registry, in list order
RegistryNames(reg) == [i \in 1..Len(reg) |-> reg[i][1]]

\* the writers of a name that have finished
Writers(name) ==
  { t \in DOMAIN threads :
      threads[t].kind = "register_type" /\ threads[t].name = name
      /\ threads[t].pc = "done" }

\* C23: whatever the interleaving, the registry holds one entry per name; a
\* finished lookup returns a level the name had at some moment of the call
\* (never None for a name registered before it began); every finished
\* registration's name is in the registry, with the level of the writer that
\* finished last; and a registration never moves an existing entry.
C23_RegistryUnderThreads ==
  [][ /\ \A i, j \in 1..Len(registry') : i # j => registry'[i][1] # registry'[j][1]
      /\ \A t \in DOMAIN threads' :
            (threads'[t].kind = "level_for_type" /\ threads'[t].pc = "done") =>
               /\ threads'[t].result \in threads'[t].seen
               /\ threads'[t].name = "info" => threads'[t].result # None
      /\ \A t \in DOMAIN threads' :
            Writers(threads[t].name)' # {} =>
               LET ws == Writers(threads[t].name)'
                   last == CHOOSE w \in ws :
                             \A v \in ws : threads'[v].ticket <= threads'[w].ticket
               IN level_for_type(registry', threads[t].name)
                    = Some(threads'[last].level)
      /\ \A i \in 1..Len(registry) :
            i <= Len(registry') /\ registry'[i][1] = registry[i][1] ]_vars

\* two threads registered the same new name with different levels and a
\* third looked it up between the two
C23_Witness ==
  /\ \A t \in DOMAIN threads : threads[t].pc = "done"
  /\ \E t, u \in DOMAIN threads :
       /\ t # u
       /\ threads[t].kind = "register_type" /\ threads[u].kind = "register_type"
       /\ threads[t].name = "custom" /\ threads[u].name = "custom"
       /\ threads[t].level # threads[u].level
  /\ \E t \in DOMAIN threads :
       /\ threads[t].kind = "level_for_type"
       /\ threads[t].name = "custom"
       /\ threads[t].result # None
       /\ threads[t].result # level_for_type(registry, "custom")
  /\ Len(registry) = Len(TYPE_REGISTRY) + 1

\* identity, type and level of the records the logger holds
HeldLevels(q, st) ==
  { << q[i].id, q[i].type_name, q[i].level >> : i \in 1..Len(q) }
  \cup (IF st.stored = None THEN {}
        ELSE { << st.stored[1].id, st.stored[1].type_name, st.stored[1].level >> })

\* identity, type and level of the record a log call has just built
BuiltLevels ==
  IF ncalls' = ncalls + 1
  THEN { << Logged.id, Logged.type_name, Logged.level >> }
  ELSE {}

\* C24: a record is built with the level its type has in the registry at that
\* moment, LOG when the type is unknown; a registration leaves the queue and
\* the throttler as they are; every record held or emitted after a step has
\* the level it had before the step or was built with; and resume() filters
\* the queued records, and the reporter routes every record, by the level
\* the record carries.
C24_LevelFixedAtConstruction ==
  [][ /\ (ncalls' = ncalls + 1) =>
           Logged.level = unwrap_or(level_for_type(registry, Logged.type_name), LOG)
      /\ (op'.name = "register_type") =>
           queue' = queue /\ state' = state /\ out' = <<>>
      /\ HeldLevels(queue', state') \subseteq HeldLevels(queue, state) \cup BuiltLevels
      /\ \A i \in 1..Len(out') :
           << out'[i].id, out'[i].type_name, out'[i].level >>
             \in HeldLevels(queue, state) \cup BuiltLevels
      /\ (op'.name = "resume" /\ paused) =>
           fed' = Ids(SelectSeq(queue, LAMBDA r : r.level <= cfg.level))
      /\ \A i \in 1..Len(events') :
           events'[i].to # "mock" =>
             events'[i].to = (IF events'[i].rec.level <= ERROR
                              THEN "stderr" ELSE "stdout")
    ]_vars

\* a resume() emits a queued "info" record at level INFO to stdout after
\* "info" was registered at ERROR
C24_Witness ==
  /\ op.name = "resume"
  /\ level_for_type(registry, "info") = Some(ERROR)
  /\ \E i \in 1..Len(events) :
       /\ events[i].rec.type_name = "info"
       /\ events[i].rec.level = INFO
       /\ events[i].to = "stdout"

\* inputs that read as a signed 16-bit integer, with the integer
NumericReading ==
  { << <<"4">>, 4 >>, << <<"-", "9", "9">>, 0 - 99 >>, << <<"+", "4">>, 4 >>,
    << <<"0", "0", "7">>, 7 >>, << <<"3", "2", "7", "6", "7">>, 32767 >>,
    << <<"-", "3", "2", "7", "6", "8">>, 0 - 32768 >> }

\* C25: normalize_level returns the integer for an input that reads as a
\* signed 16-bit integer, whatever is registered under that name, otherwise
\* the level of the type registered under the input, otherwise None; "info"
\* gives INFO, "4" gives LogLevel(4), and "bogus" gives None while no type
\* has that name.
C25_Normalize ==
  (call.name = "normalize_level") =>
    /\ \A p \in NumericReading : call.input = p[1] => call.result = Some(p[2])
    /\ (\A p \in NumericReading : call.input # p[1]) =>
          call.result = level_for_type(registry, StrOf(call.input))
    /\ call.input = <<"i", "n", "f", "o">> => call.result = Some(INFO)
    /\ call.input = <<"4">> => call.result = Some(4)
    /\ (call.input = <<"b", "o", "g", "u", "s">>
          /\ \A i \in 1..Len(registry) : registry[i][1] # "bogus") =>
          call.result = None

\* "4" is normalised to LogLevel(4) while a type named "4" is registered at
\* TRACE
C25_Witness ==
  /\ call.name = "normalize_level"
  /\ call.input = <<"4">>
  /\ level_for_type(registry, "4") = Some(TRACE)
  /\ call.result = Some(4)

\* the walk from error n along source() reaches an error without source
\* within k links
RECURSIVE Acyclic(_, _, _)
Acyclic(g, n, k) ==
  \/ g.source[n] = None
  \/ k > 0 /\ Acyclic(g, g.source[n][1], k - 1)

\* the errors from n down to the deepest source of an acyclic chain
RECURSIVE ChainFrom(_, _)
ChainFrom(g, n) ==
  IF g.source[n] = None THEN << n >>
  ELSE << n >> \o ChainFrom(g, g.source[n][1])

\* C26: every pass of the loop either ends the walk or adds a new address to
\* the finite set of addresses seen, so the walk ends after at most one pass
\* per error object and one more, cycle or not; and no two strings of the
\* output come from error objects at the same address.
C26_ChainTerminates ==
  [][ (call.name = "collect_chain" /\ call.pc = "loop") =>
        /\ \/ call'.pc = "done"
           \/ Cardinality(call'.seen) = Cardinality(call.seen) + 1
        /\ call'.seen \subseteq { addr(call.graph, n) : n \in Errors }
        /\ Len(call'.out) <= NErrors
        /\ \A i, j \in 1..Len(call'.out) :
             i # j => addr(call.graph, call'.out[i].node)
                        # addr(call.graph, call'.out[j].node)
    ]_vars

\* the walk over a cycle through every error object has ended with each of
\* them once in the output
C26_Witness ==
  /\ call.name = "collect_chain"
  /\ call.pc = "done"
  /\ ~Acyclic(call.graph, call.err, NErrors)
  /\ Len(call.out) = NErrors

\* C27: for an acyclic chain the output is the display strings of all its
\* error objects, from the given error down to its deepest source.
C27_AcyclicChainComplete ==
  (/\ call.name = "collect_chain"
   /\ call.pc = "done"
   /\ Acyclic(call.graph, call.err, NErrors)) =>
     LET chain == ChainFrom(call.graph, call.err)
     IN call.out = [i \in 1..Len(chain) |->
                      [node |-> chain[i], text |-> to_string(chain[i])]]

UnpausedCall == ncalls' = ncalls + 1 /\ ~paused

\* the record just built follows, at the throttler, a record with another
\* fingerprint that was not repeated, or no record at all
FollowsAnother ==
  /\ state.count <= 1
  /\ state.current_fp # Some(fingerprint(Logged))

\* C29: on a logger that is not paused, a call whose record fails the level
\* filter emits nothing; a call whose record passes, and whose fingerprint
\* differs from that of the passing record before it, emits exactly that
\* record with repetition_count 1 and leaves it as a group of one, so the
\* emitted sequence is the passing records in call order, each once.
C29_PassingInOrder ==
  [][ UnpausedCall =>
        /\ op'.passed = (Logged.level <= cfg.level)
        /\ ~op'.passed => (out' = <<>> /\ state' = state)
        /\ (op'.passed /\ FollowsAnother) =>
             /\ out' = << [Logged EXCEPT !.repetition_count = 1] >>
             /\ state'.count = 1
             /\ state'.current_fp = Some(fingerprint(Logged))
             /\ nemitted' = nemitted + 1 ]_vars

\* the third call was emitted alone with repetition_count 1 after a passing
\* first call with another fingerprint and a second call that was filtered
C29_Witness ==
  /\ ncalls = 3
  /\ nemitted = 2
  /\ ~paused
  /\ op.name \in {"log", "log_raw"}
  /\ op.passed
  /\ cfg.level < DEBUG
  /\ Len(out) = 1
  /\ out[1].id = 3
  /\ out[1].repetition_count = 1
  /\ state.count = 1

\* C30: a log or log_raw call whose record is above the configured level
\* changes neither the throttler (group, count, first_time, stored record),
\* nor the pause queue, nor the paused flag, nor the configuration, and
\* nothing is emitted or fed to the throttler, paused or not.
C30_FilteredCallIsNoOp ==
  [][ (ncalls' = ncalls + 1 /\ Logged.level > cfg.level) =>
        /\ ~op'.passed
        /\ state' = state
        /\ queue' = queue
        /\ paused' = paused
        /\ cfg' = cfg
        /\ evicted' = evicted
        /\ nemitted' = nemitted
        /\ out' = <<>>
        /\ fed' = <<>>
        /\ events' = <<>> ]_vars

\* the third call completed a run of two begun by the first: the second
\* call, filtered, did not break it
C30_Witness ==
  /\ ncalls = 3
  /\ op.name \in {"log", "log_raw"}
  /\ op.passed
  /\ op.rec[1].id = 3
  /\ state.count = 2
  /\ state.stored # None
  /\ state.stored[1].id = 1
  /\ Len(out) = 1
  /\ out[1].repetition_count = 2
  /\ nemitted = 2

\* the logged record reaches the throttler while it holds a group with
\* another fingerprint, inside that group's window
OtherGroupActive ==
  /\ state.current_fp # None
  /\ state.current_fp # Some(fingerprint(Logged))
  /\ ~Expired

\* C31: a record whose fingerprint differs from the active group's closes
\* that group first, its stored record going out with the old count when
\* occurrences were suppressed, and is then emitted itself, last, with
\* repetition_count 1 as the first record of a new group of count 1.
C31_FingerprintChange ==
  [][ (FedStep /\ OtherGroupActive) =>
        /\ out' # <<>>
        /\ Len(out') <= 2
        /\ out'[Len(out')] = [Logged EXCEPT !.repetition_count = 1]
        /\ state'.count = 1
        /\ state'.stored = Some([Logged EXCEPT !.repetition_count = 1])
        /\ state'.current_fp = Some(fingerprint(Logged))
        /\ state'.first_time = Some(Logged.timestamp)
        /\ Suppressed =>
             /\ Len(out') = 2
             /\ out'[1] = state.stored[1]
             /\ out'[1].repetition_count = state.count
        /\ state.count = 1 => Len(out') = 1 ]_vars

\* under min_count 3 a group of two was closed by another record at the same
\* clock reading: the old record went out with count 2, then the new with 1
C31_Witness ==
  /\ op.name \in {"log", "log_raw"}
  /\ cfg.throttle.min_count = 3
  /\ Len(out) = 2
  /\ fingerprint(out[1]) # fingerprint(out[2])
  /\ out[1].repetition_count = 2
  /\ out[2].repetition_count = 1
  /\ out[2].timestamp = out[1].timestamp
  /\ state.count = 1

\* the step closes the group the throttler holds: a flush, the flush of a
\* pause or of a drop, or a record that arrives after the window or with
\* another fingerprint
ClosesGroup ==
  \/ op'.name \in {"flush", "drop"}
  \/ op'.name = "pause" /\ ~paused
  \/ FedStep /\ (Expired \/ state.current_fp # Some(fingerprint(Logged)))

\* the records of a sequence that were built by call `id`
OfCall(recs, id) == { i \in 1..Len(recs) : recs[i].id = id }

\* C32: the stored record of a group is its first record, carrying the
\* number of occurrences so far, and every further occurrence adds one to
\* it; when a group with occurrences suppressed since its last emission is
\* closed, that record goes out exactly once, first, with the group's total
\* count, and the group is gone.
C32_SuppressedAccounted ==
  [][ /\ (state.stored # None) =>
           /\ state.stored[1].repetition_count = state.count
           /\ state.current_fp = Some(fingerprint(state.stored[1]))
           /\ state.first_time = Some(state.stored[1].timestamp)
      /\ (FedStep /\ state.stored # None /\ SameRun) =>
           /\ state'.count = state.count + 1
           /\ state'.stored =
                Some([state.stored[1] EXCEPT !.repetition_count = state.count + 1])
      /\ (state.stored # None /\ Suppressed /\ ClosesGroup) =>
           /\ out' # <<>>
           /\ out'[1] = state.stored[1]
           /\ out'[1].repetition_count = state.count
           /\ OfCall(out', state.stored[1].id) = {1}
           /\ state'.stored = None \/ state'.stored[1].id # state.stored[1].id
    ]_vars

\* a group of three under min_count 2, whose third occurrence was suppressed
\* after the aggregated emission, was closed by a flush that emitted the
\* first record with count 3
C32_Witness ==
  /\ op.name = "flush"
  /\ cfg.throttle.min_count = 2
  /\ ncalls = 3
  /\ nemitted = 3
  /\ Len(out) = 1
  /\ out[1].id = 1
  /\ out[1].repetition_count = 3
  /\ state = ThrottleStateNew

\* the keys of a list of pairs in the order of their first insertion
RECURSIVE FirstKeys(_, _)
FirstKeys(pairs, acc) ==
  IF pairs = <<>> THEN acc
  ELSE IF \E i \in 1..Len(acc) : acc[i] = Head(pairs)[1]
  THEN FirstKeys(Tail(pairs), acc)
  ELSE FirstKeys(Tail(pairs), Append(acc, Head(pairs)[1]))

\* C33: merge_defaults has one possible result for a record and defaults,
\* and the keys of the merged meta list stand in the order they were
\* inserted: the defaults' keys first, then the record's new keys.
C33_MetaOrderKept ==
  (call.name = "merge_defaults" /\ call.result # None) =>
    LET rm == ListOf(call.rec.meta)
        dm == ListOf(call.defaults.meta)
        res == ListOf(Merged.meta)
    IN /\ merge_defaults(call.rec, call.defaults) = {Merged}
       /\ (call.rec.meta # None /\ call.defaults.meta # None) =>
            [i \in 1..Len(res) |-> res[i][1]] = FirstKeys(dm \o rm, <<>>)

\* C34: a record built by LogRecord::raw has is_raw set, no args and the
\* message it was built with after any builder calls.
C34_RawStaysRaw ==
  (call.name = "record" /\ call.built.is_raw) =>
    /\ call.rec.is_raw
    /\ call.rec.args = <<>>
    /\ call.rec.message = call.built.message

\* C35: no call of register_type or level_for_type (and so of
\* normalize_level, which calls it) panics when it takes the registry lock,
\* whether or not a thread has panicked while holding it.
C35_NoPanicOnPoison ==
  \A t \in DOMAIN threads : threads[t].pc # "panicked"

\* C36: a paused logger's throttler holds no group; every operation on a
\* paused logger other than resume() emits nothing, and a log or log_raw
\* call only puts its record, when it passes the filter, in the queue.
C36_PausedEmitsNothing ==
  [][ paused =>
        /\ state = ThrottleStateNew
        /\ (op'.name # "resume") =>
             /\ out' = <<>>
             /\ events' = <<>>
             /\ nemitted' = nemitted
             /\ state' = state
        /\ (ncalls' = ncalls + 1) =>
             queue' = IF op'.passed THEN enqueue(cfg, queue, Logged) ELSE queue
    ]_vars

\* a flush() on a paused logger with a queued record emitted nothing, after
\* records had been emitted before the pause
C36_Witness ==
  /\ paused
  /\ op.name = "flush"
  /\ queue # <<>>
  /\ out = <<>>
  /\ nemitted > 0
  /\ state = ThrottleStateNew

\* C37: the queue of a logger that is not paused is empty; the queue changes
\* only by a log or log_raw call on a paused logger and by resume(), which
\* leaves it empty with every queued record either fed to the throttler or
\* dropped by the filter.
C37_QueueEmptyUnlessPaused ==
  [][ /\ ~paused => queue = <<>>
      /\ ~paused' => queue' = <<>>
      /\ (queue' # queue /\ op'.name # "resume") =>
           (paused /\ ncalls' = ncalls + 1 /\ op'.passed)
      /\ ResumeStep =>
           /\ queue' = <<>>
           /\ ~paused'
           /\ Len(fed') + op'.ndropped = Len(queue) ]_vars

\* a resume() emptied a queue of two, one record fed to the throttler and
\* one dropped by the filter
C37_Witness ==
  /\ op.name = "resume"
  /\ op.passed
  /\ ~paused
  /\ queue = <<>>
  /\ Len(fed) = 1
  /\ op.ndropped = 1

\* C38: the pause queue never holds more records than the configured
\* capacity, whatever the capacity, 0 included.
C38_QueueWithinCapacity ==
  (cfg.queue_capacity # None) => Len(queue) <= cfg.queue_capacity[1]

\* C39: a record is counted as a repeat of the group the throttler holds
\* only when it agrees with the group's record on type_name, tag, level,
\* message and arguments.
C39_RepeatsAgree ==
  [][ (FedStep /\ state.stored # None /\ state'.count = state.count + 1) =>
        /\ Logged.type_name = state.stored[1].type_name
        /\ Logged.tag = state.stored[1].tag
        /\ Logged.level = state.stored[1].level
        /\ Logged.message = state.stored[1].message
        /\ Logged.args = state.stored[1].args ]_vars

\* C40: every record that log, log_raw, flush, pause, resume or drop hands
\* to the reporter has a level within the level configured when the
\* operation is called, whether the record is new, queued, or the stored
\* record of a group begun under an earlier level.
C40_NothingAboveCurrentLevel ==
  [][ (op'.name \in {"log", "log_raw", "flush", "pause", "resume", "drop"}) =>
        \A i \in 1..Len(out') : out'[i].level <= cfg.level ]_vars
====
